---- MODULE Spec2Model ----
(***************************************************************************)
(* Ledger reporting engine of finanz.                                      *)
(*                                                                         *)
(* The state is the two Postgres tables the engine reads, public.channels  *)
(* and public.transactions, plus the contents of the ranking view          *)
(* reporting.internal_asset_transfers, whose row_number() ranking is free  *)
(* to order equal time gaps either way.  Every other reporting view is a   *)
(* pure query over these and is an operator below.  backfill_input is the   *)
(* table fix_amount_signs.sql last ran on, NULL once rows were inserted    *)
(* after that run.  current_date is the day of the database clock, which   *)
(* the installment views read.  verify_exit is the exit code of            *)
(* verify-reporting run over the present tables, NULL when it did not run  *)
(* since they changed.                                                     *)
(*                                                                         *)
(* Hangul text of the sources is written in ASCII romanisation, one token  *)
(* per syllable: "ka","deu" is the card marker, "ku","pang" the            *)
(* marketplace marker; the raw direction keys are "georaegubun", "georae   *)
(* gubun" and "gubun", the raw income keys "naeyong", "georae gigwan" and  *)
(* "georaegigwan", the raw installment keys "halbu", "sangpumgubun" and    *)
(* "sangtae"; "chwi","so" and "jeong","jeong" are the cancellation and     *)
(* correction markers.  Amounts are numeric(18,2) values counted in        *)
(* hundredths.                                                             *)
(***************************************************************************)
EXTENDS Integers, Sequences, FiniteSets, TLC

VARIABLES channels, transactions, transfers, backfill_input, current_date, verify_exit

vars == <<channels, transactions, transfers, backfill_input, current_date, verify_exit>>

(***************************************************************************)
(* Generic helpers: SQL NULL, sums, text.                                  *)
(***************************************************************************)

\* A nullable value is a sequence of length at most one: <<>> is NULL.
Null == <<>>

Some(v) == <<v>>

IsNull(x) == x = <<>>

RECURSIVE SumF(_)
\* sum() over the rows of a relation given as a function row |-> value.
SumF(f) ==
  IF DOMAIN f = {} THEN 0
  ELSE LET x == CHOOSE y \in DOMAIN f : TRUE
       IN  f[x] + SumF([y \in DOMAIN f \ {x} |-> f[y]])

Abs(n) == IF n < 0 THEN -n ELSE n

Min(S) == CHOOSE m \in S : \A n \in S : m <= n

Max(S) == CHOOSE m \in S : \A n \in S : m >= n

\* Text is a sequence of one-character (one-syllable) tokens.
IsSpace(ch) == ch \in {" ", "\t", "\n"}

RECURSIVE TrimLeft(_)
TrimLeft(s) == IF s # <<>> /\ IsSpace(Head(s)) THEN TrimLeft(Tail(s)) ELSE s

RECURSIVE TrimRight(_)
TrimRight(s) ==
  IF s # <<>> /\ IsSpace(s[Len(s)]) THEN TrimRight(SubSeq(s, 1, Len(s) - 1)) ELSE s

\* String.prototype.trim
Trim(s) == TrimRight(TrimLeft(s))

\* String.prototype.startsWith, and SQL  text LIKE 'prefix%'
StartsWith(s, prefix) ==
  /\ Len(s) >= Len(prefix)
  /\ SubSeq(s, 1, Len(prefix)) = prefix

\* SQL  text LIKE '%pattern%'
Contains(s, pattern) ==
  \E i \in 0 .. (Len(s) - Len(pattern)) : SubSeq(s, i + 1, i + Len(pattern)) = pattern

LowerChar(ch) ==
  CASE ch = "K" -> "k"
    [] ch = "B" -> "b"
    [] OTHER -> ch

\* SQL lower()
Lower(s) == [i \in 1 .. Len(s) |-> LowerChar(s[i])]

MinusMarker == <<"[", "-">>

PlusMarker == <<"[", "+">>

(***************************************************************************)
(* Sign Normalizer, ingestion form (generate-transaction-sql).             *)
(***************************************************************************)

\* the raw direction fields extractExplicitSign reads
RawKeys == {"georaegubun", "georae gubun", "gubun"}

\* extractExplicitSign: the candidate texts are transactionType and the
\* three raw direction fields, as far as they are strings.
SignCandidates(record) ==
  (IF IsNull(record.transactionType) THEN {} ELSE {record.transactionType[1]})
    \cup {record.raw[k][1] : k \in {j \in RawKeys : ~IsNull(record.raw[j])}}

SignHints(record) ==
  {-1 : text \in {c \in SignCandidates(record) :
                    Trim(c) # <<>> /\ StartsWith(Trim(c), MinusMarker)}}
    \cup
  {1 : text \in {c \in SignCandidates(record) :
                   /\ Trim(c) # <<>>
                   /\ ~StartsWith(Trim(c), MinusMarker)
                   /\ StartsWith(Trim(c), PlusMarker)}}

extractExplicitSign(record) ==
  LET hasPositive == 1 \in SignHints(record)
      hasNegative == -1 \in SignHints(record)
  IN  IF hasPositive /\ ~hasNegative THEN 1
      ELSE IF hasNegative /\ ~hasPositive THEN -1
      ELSE 0

normalizeAmount(record) ==
  LET numeric == record.amount
      desiredSign == extractExplicitSign(record)
      currentSign == IF numeric > 0 THEN 1 ELSE -1
  IN  IF numeric = 0 THEN 0
      ELSE IF desiredSign = 0 THEN numeric
      ELSE IF currentSign = desiredSign THEN numeric
      ELSE Abs(numeric) * desiredSign

UnknownType == <<"u", "n", "k", "n", "o", "w", "n">>

\* One tuple of the VALUES list of insertTransactions: v_file_id is the
\* transaction_files row of json.sourceFile, v_channel_id the channel of
\* json.account.
InsertValues(json, record) ==
  [ file_id          |-> json.sourceFile,
    channel_id       |-> json.account,
    record_id        |-> record.id,
    occurred_at      |-> record.occurredAt,
    transaction_type |-> IF IsNull(record.transactionType) \/ record.transactionType[1] = <<>>
                         THEN UnknownType
                         ELSE record.transactionType[1],
    description      |-> IF IsNull(record.description) THEN <<>> ELSE record.description[1],
    amount           |-> normalizeAmount(record),
    metadata         |-> record.metadata,
    raw              |-> record.raw ]

\* unique (file_id, record_id), and ON CONFLICT (file_id, record_id) DO NOTHING
Conflicts(file_id, record_id, table) ==
  \E t \in table : t.file_id = file_id /\ t.record_id = record_id

\* the insert written as an upsert: ON CONFLICT (file_id, record_id) DO
\* UPDATE SET amount = EXCLUDED.amount
InsertTransactions_DoUpdate(json, table) ==
  {t \in table : \A r \in json.records : ~(t.file_id = json.sourceFile /\ t.record_id = r.id)}
    \cup {InsertValues(json, r) : r \in json.records}

InsertTransactions(json, table) ==
  table \cup {InsertValues(json, r) :
               r \in {q \in json.records : ~Conflicts(json.sourceFile, q.id, table)}}

(***************************************************************************)
(* Sign Normalizer, backfill form (fix_amount_signs.sql).                  *)
(***************************************************************************)

\* transaction_type like '[-%' or raw ->> key like '[-%' for one of the keys
HasSqlMarker(t, marker) ==
  \/ StartsWith(t.transaction_type, marker)
  \/ \E k \in RawKeys : ~IsNull(t.raw[k]) /\ StartsWith(t.raw[k][1], marker)

\* the first update negating every marked amount, whatever its sign
UpdateNegative_AnySign(table) ==
  {IF HasSqlMarker(t, MinusMarker)
     THEN [t EXCEPT !.amount = -t.amount]
     ELSE t : t \in table}

\* update ... set amount = -abs(amount) where amount > 0 and ( '[-' marker )
UpdateNegative(table) ==
  {IF t.amount > 0 /\ HasSqlMarker(t, MinusMarker)
     THEN [t EXCEPT !.amount = -Abs(t.amount)]
     ELSE t : t \in table}

\* the second update written like the first: set amount = -abs(amount)
UpdatePositive_NegatesAgain(table) ==
  {IF t.amount < 0 /\ HasSqlMarker(t, PlusMarker)
     THEN [t EXCEPT !.amount = -Abs(t.amount)]
     ELSE t : t \in table}

\* the second update looking at transaction_type only
UpdatePositive_TypeOnly(table) ==
  {IF t.amount < 0 /\ StartsWith(t.transaction_type, PlusMarker)
     THEN [t EXCEPT !.amount = Abs(t.amount)]
     ELSE t : t \in table}

\* update ... set amount = abs(amount) where amount < 0 and ( '[+' marker )
UpdatePositive(table) ==
  {IF t.amount < 0 /\ HasSqlMarker(t, PlusMarker)
     THEN [t EXCEPT !.amount = Abs(t.amount)]
     ELSE t : t \in table}

\* the script: the two updates, one after the other
fix_amount_signs(table) == UpdatePositive(UpdateNegative(table))

(***************************************************************************)
(* Calendar arithmetic of date_trunc and interval, days counted from       *)
(* 2024-01-01 and months from 2024-01.                                     *)
(***************************************************************************)

SecondsPerDay == 24 * 60 * 60

IsLeapYear(y) == (y % 4 = 0 /\ y % 100 # 0) \/ y % 400 = 0

YearOfMonth(m) == 2024 + (m \div 12)

DaysInMonth(m) ==
  LET mm == (m % 12) + 1
  IN  IF mm \in {4, 6, 9, 11} THEN 30
      ELSE IF mm = 2 THEN (IF IsLeapYear(YearOfMonth(m)) THEN 29 ELSE 28)
      ELSE 31

MonthRange == 0 .. 24

RECURSIVE FirstDayOfMonth(_)
FirstDayOfMonth(m) == IF m = 0 THEN 0 ELSE FirstDayOfMonth(m - 1) + DaysInMonth(m - 1)

MonthStartTable == [m \in MonthRange |-> FirstDayOfMonth(m)]

\* date_trunc('day', occurred_at)::date
DayOf(instant) == instant \div SecondsPerDay

DayRange == 0 .. (FirstDayOfMonth(24) - 1)

MonthOfTable ==
  [day \in DayRange |->
     CHOOSE m \in MonthRange :
       MonthStartTable[m] <= day /\ day < MonthStartTable[m] + DaysInMonth(m)]

\* the month a date lies in
MonthOf(day) == MonthOfTable[day]

\* date_trunc('month', d)::date
MonthStart(day) == MonthStartTable[MonthOf(day)]

\* (date_trunc('month', d) + interval '1 month' - interval '1 day')::date
MonthEnd(day) == MonthStartTable[MonthOf(day)] + DaysInMonth(MonthOf(day)) - 1

(***************************************************************************)
(* Channel Role Classifier (view channel_roles).                           *)
(***************************************************************************)

CardMarker == <<"ka", "deu">>

CoupangMarker == <<"ku", "pang">>

\* the name heuristic consulted before the metadata
reporting_role_NameFirst(c) ==
  IF Contains(Lower(c.name), CoupangMarker) THEN "off_balance"
  ELSE IF Contains(Lower(c.name), CardMarker) THEN "liability"
  ELSE IF ~IsNull(c.metadata.reporting_role) THEN c.metadata.reporting_role[1]
  ELSE "asset"

\* coalesce(metadata ->> 'reporting_role', case when name like ... end)
reporting_role(c) ==
  IF ~IsNull(c.metadata.reporting_role) THEN c.metadata.reporting_role[1]
  ELSE IF Contains(Lower(c.name), CoupangMarker) THEN "off_balance"
  ELSE IF Contains(Lower(c.name), CardMarker) THEN "liability"
  ELSE "asset"

\* coalesce(metadata ->> 'cash_flow_activity', 'operating')
cash_flow_activity(c) ==
  IF ~IsNull(c.metadata.cash_flow_activity) THEN c.metadata.cash_flow_activity[1]
  ELSE "operating"

(***************************************************************************)
(* Internal Transfer Matcher.                                              *)
(***************************************************************************)

\* transactions.id
TxId(t) == <<t.file_id, t.record_id>>

\* view asset_cash_transactions
asset_cash_transactions(table, chans) ==
  {t \in table :
     /\ t.channel_id \in DOMAIN chans
     /\ ~IsNull(t.occurred_at)
     /\ reporting_role(chans[t.channel_id]) = "asset"}

MatchWindow == 900

\* abs(extract(epoch from (t_in.occurred_at - t_out.occurred_at)))
time_gap(t_out, t_in) == Abs(t_in.occurred_at[1] - t_out.occurred_at[1])

\* the join condition with a window that ends before 900 seconds
IsCandidate_StrictWindow(t_out, t_in) ==
  /\ t_out.amount < 0
  /\ t_in.amount > 0
  /\ t_out.channel_id # t_in.channel_id
  /\ t_in.amount = -t_out.amount
  /\ time_gap(t_out, t_in) < MatchWindow

\* the join condition of the candidates CTE
IsCandidate(t_out, t_in) ==
  /\ t_out.amount < 0
  /\ t_in.amount > 0
  /\ t_out.channel_id # t_in.channel_id
  /\ t_in.amount = -t_out.amount
  /\ time_gap(t_out, t_in) <= MatchWindow

candidates(table, chans) ==
  {pair \in asset_cash_transactions(table, chans) \X asset_cash_transactions(table, chans) :
     IsCandidate(pair[1], pair[2])}

\* The rows row_number() may number 1 in the partition of one outbound
\* (inbound) transaction: those of least time gap.  Among equal gaps the
\* ranking has no further sort key.
FirstForOut(t_out, cands) ==
  {c \in cands : c[1] = t_out /\ \A d \in cands : d[1] = t_out => time_gap(c[1], c[2]) <= time_gap(d[1], d[2])}

\* rn_in = 1 granted to every candidate of the inbound transaction
FirstForIn_AnyGap(t_in, cands) ==
  {c \in cands : c[2] = t_in}

FirstForIn(t_in, cands) ==
  {c \in cands : c[2] = t_in /\ \A d \in cands : d[2] = t_in => time_gap(c[1], c[2]) <= time_gap(d[1], d[2])}

\* internal_asset_transfers keeping every row with rn_out = 1
internal_asset_transfers_OutRankOnly(table, chans) ==
  LET cands == candidates(table, chans)
      outs  == {c[1] : c \in cands}
      rnOut == {f \in [outs -> cands] : \A o \in outs : f[o] \in FirstForOut(o, cands)}
  IN  {{[out_id |-> TxId(c[1]), in_id |-> TxId(c[2])] :
          c \in {d \in cands : f[d[1]] = d}} : f \in rnOut}

\* One evaluation of the view for each way to number the partitions:
\* rn_out = 1 and rn_in = 1.
internal_asset_transfers(table, chans) ==
  LET cands == candidates(table, chans)
      outs  == {c[1] : c \in cands}
      ins   == {c[2] : c \in cands}
      rnOut == {f \in [outs -> cands] : \A o \in outs : f[o] \in FirstForOut(o, cands)}
      rnIn  == {g \in [ins -> cands] : \A i \in ins : g[i] \in FirstForIn(i, cands)}
  IN  {{[out_id |-> TxId(c[1]), in_id |-> TxId(c[2])] :
          c \in {d \in cands : f[d[1]] = d /\ g[d[2]] = d}} : f \in rnOut, g \in rnIn}

\* view external_asset_transactions, for the given contents of the pairing view
external_asset_transactions(table, chans, pairs) ==
  {t \in asset_cash_transactions(table, chans) :
     \A p \in pairs : p.out_id # TxId(t) /\ p.in_id # TxId(t)}

(***************************************************************************)
(* Balance Time-Series Builder.                                            *)
(***************************************************************************)

\* CTE bounds of view calendar: min and max day over all of
\* public.transactions; min and max skip NULL timestamps.
calendar_bounds(table) ==
  LET days == {DayOf(t.occurred_at[1]) : t \in {u \in table : ~IsNull(u.occurred_at)}}
  IN  IF days = {} THEN Null
      ELSE Some([start_date |-> Min(days), end_date |-> Max(days)])

\* a calendar of the days that have a transaction
calendar_TransactionDaysOnly(table) ==
  {DayOf(t.occurred_at[1]) : t \in {u \in table : ~IsNull(u.occurred_at)}}

\* view calendar: generate_series(start_date, end_date, interval '1 day')
\* where start_date is not null
calendar(table) ==
  LET bounds == calendar_bounds(table)
  IN  IF IsNull(bounds) THEN {} ELSE bounds[1].start_date .. bounds[1].end_date

\* view daily_channel_deltas: group by channel_id, day
daily_channel_deltas(table) ==
  LET dated == {t \in table : ~IsNull(t.occurred_at)}
      keys  == {<<t.channel_id, DayOf(t.occurred_at[1])>> : t \in dated}
  IN  {[channel_id    |-> k[1],
        calendar_date |-> k[2],
        delta         |-> SumF([t \in {u \in dated : u.channel_id = k[1]
                                                    /\ DayOf(u.occurred_at[1]) = k[2]}
                                 |-> t.amount])] : k \in keys}

\* CTE joined: coalesce(d.delta, 0) of the left join on (channel, date)
JoinedDelta(deltas, channel_id, calendar_date) ==
  LET hit == {d \in deltas : d.channel_id = channel_id /\ d.calendar_date = calendar_date}
  IN  IF hit = {} THEN 0 ELSE (CHOOSE d \in hit : TRUE).delta

RECURSIVE RunningSum_CurrentRowOnly(_, _, _, _, _)
\* the window sum with a frame of the current row only
RunningSum_CurrentRowOnly(deltas, channel_id, day, last, preceding) ==
  IF day > last THEN <<>>
  ELSE <<JoinedDelta(deltas, channel_id, day)>>
         \o RunningSum_CurrentRowOnly(deltas, channel_id, day + 1, last, preceding)

RECURSIVE RunningSum(_, _, _, _, _)
\* sum(delta) over (partition by channel_id order by calendar_date
\*                  rows between unbounded preceding and current row),
\* as the sequence of closing balances from date day to date last.
RunningSum(deltas, channel_id, day, last, preceding) ==
  IF day > last THEN <<>>
  ELSE LET closing == preceding + JoinedDelta(deltas, channel_id, day)
       IN  <<closing>> \o RunningSum(deltas, channel_id, day + 1, last, closing)

\* view channel_daily_balances: one row per channel of public.channels and
\* calendar date
channel_daily_balances(table, chans) ==
  LET bounds == calendar_bounds(table)
      deltas == daily_channel_deltas(table)
  IN  IF IsNull(bounds) THEN {}
      ELSE UNION {LET series == RunningSum(deltas, c, bounds[1].start_date, bounds[1].end_date, 0)
                  IN  {[calendar_date   |-> d,
                        channel_id      |-> c,
                        closing_balance |-> series[d - bounds[1].start_date + 1]] :
                         d \in calendar(table)} : c \in DOMAIN chans}

(***************************************************************************)
(* Period Aggregator, point sample.                                        *)
(***************************************************************************)

\* date_trunc('quarter', d)::date
QuarterStart(day) == MonthStartTable[MonthOf(day) - (MonthOf(day) % 3)]

\* (date_trunc('quarter', d) + interval '3 month' - interval '1 day')::date
QuarterEnd(day) == MonthStartTable[MonthOf(day) - (MonthOf(day) % 3) + 3] - 1

\* the first half of the year running to the end of July
HalfYearStart_JulyInFirstHalf(day) ==
  LET m == MonthOf(day)
  IN  MonthStartTable[(m - (m % 12)) + (IF (m % 12) + 1 <= 7 THEN 0 ELSE 6)]

\* date_trunc('year', d) + case when month <= 6 then 0 month else 6 month
HalfYearStart(day) ==
  LET m == MonthOf(day)
  IN  MonthStartTable[(m - (m % 12)) + (IF (m % 12) + 1 <= 6 THEN 0 ELSE 6)]

\* date_trunc('year', d) + case when month <= 6 then 6 else 12 month - 1 day
HalfYearEnd(day) ==
  LET m == MonthOf(day)
  IN  MonthStartTable[(m - (m % 12)) + (IF (m % 12) + 1 <= 6 THEN 6 ELSE 12)] - 1

\* the select of the rows with rn = 1 of row_number() over (partition by
\* channel_id, period order by calendar_date desc): the row of the latest
\* calendar date of each partition of the CTE base.
LastOfPeriod(base) ==
  LET partitions == {<<x.channel_id, x.period_start>> : x \in base}
      first(k) == LET partition == {x \in base : x.channel_id = k[1] /\ x.period_start = k[2]}
                  IN  CHOOSE x \in partition :
                        \A y \in partition : y.calendar_date <= x.calendar_date
      selected(x) == [period_start    |-> x.period_start,
                      period_end      |-> x.period_end,
                      channel_id      |-> x.channel_id,
                      closing_balance |-> x.closing_balance]
  IN  {selected(first(k)) : k \in partitions}

balance_sheet_monthly_channel(table, chans) ==
  LET base == {[period_start    |-> MonthStart(b.calendar_date),
                period_end      |-> MonthEnd(b.calendar_date),
                channel_id      |-> b.channel_id,
                closing_balance |-> b.closing_balance,
                calendar_date   |-> b.calendar_date] :
                 b \in channel_daily_balances(table, chans)}
  IN  LastOfPeriod(base)

balance_sheet_quarterly_channel(table, chans) ==
  LET base == {[period_start    |-> QuarterStart(b.calendar_date),
                period_end      |-> QuarterEnd(b.calendar_date),
                channel_id      |-> b.channel_id,
                closing_balance |-> b.closing_balance,
                calendar_date   |-> b.calendar_date] :
                 b \in channel_daily_balances(table, chans)}
  IN  LastOfPeriod(base)

balance_sheet_half_year_channel(table, chans) ==
  LET base == {[period_start    |-> HalfYearStart(b.calendar_date),
                period_end      |-> HalfYearEnd(b.calendar_date),
                channel_id      |-> b.channel_id,
                closing_balance |-> b.closing_balance,
                calendar_date   |-> b.calendar_date] :
                 b \in channel_daily_balances(table, chans)}
  IN  LastOfPeriod(base)

(***************************************************************************)
(* Balance Sheet Composer.                                                 *)
(***************************************************************************)
\* the sum taking every role but liability for an asset
SumRole_AssetIsNotLiability(rows, chans, role) ==
  SumF([b \in rows |->
          IF (role = "asset" /\ reporting_role(chans[b.channel_id]) # "liability")
               \/ (role # "asset" /\ reporting_role(chans[b.channel_id]) = role)
          THEN b.closing_balance ELSE 0])

\* sum(case when r.reporting_role = role then b.closing_balance else 0 end)
\* over the rows of one period
SumRole(rows, chans, role) ==
  SumF([b \in rows |-> IF reporting_role(chans[b.channel_id]) = role
                       THEN b.closing_balance ELSE 0])

\* balance_sheet_summary with equity taken as assets less every other role
balance_sheet_summary_EquityLessOthers(channelRows, chans) ==
  LET periods == {<<b.period_start, b.period_end>> : b \in channelRows}
      of(p)   == {b \in channelRows : b.period_start = p[1] /\ b.period_end = p[2]}
  IN  {[period_start |-> p[1],
        period_end   |-> p[2],
        assets       |-> SumRole(of(p), chans, "asset"),
        liabilities  |-> SumRole(of(p), chans, "liability"),
        equity       |-> SumRole(of(p), chans, "asset")
                           - SumF([b \in of(p) |-> IF reporting_role(chans[b.channel_id]) # "asset"
                                                   THEN b.closing_balance ELSE 0])] :
       p \in periods}

\* the summary select: join channel_roles, group by period_start, period_end
balance_sheet_summary(channelRows, chans) ==
  LET periods == {<<b.period_start, b.period_end>> : b \in channelRows}
      of(p)   == {b \in channelRows : b.period_start = p[1] /\ b.period_end = p[2]}
  IN  {[period_start |-> p[1],
        period_end   |-> p[2],
        assets       |-> SumRole(of(p), chans, "asset"),
        liabilities  |-> SumRole(of(p), chans, "liability"),
        equity       |-> SumRole(of(p), chans, "asset") - SumRole(of(p), chans, "liability")] :
       p \in periods}

balance_sheet_monthly_summary(table, chans) ==
  balance_sheet_summary(balance_sheet_monthly_channel(table, chans), chans)

balance_sheet_quarterly_summary(table, chans) ==
  balance_sheet_summary(balance_sheet_quarterly_channel(table, chans), chans)

balance_sheet_half_year_summary(table, chans) ==
  balance_sheet_summary(balance_sheet_half_year_channel(table, chans), chans)

(***************************************************************************)
(* Cash Flow Composer.                                                     *)
(***************************************************************************)

\* sum(case when t.cash_flow_activity = activity then t.amount else 0 end)
SumActivity(rows, chans, activity) ==
  SumF([t \in rows |-> IF cash_flow_activity(chans[t.channel_id]) = activity
                       THEN t.amount ELSE 0])

\* view cash_flow_monthly with total_outflows as a magnitude
cash_flow_monthly_OutflowMagnitude(table, chans, pairs) ==
  LET ext     == external_asset_transactions(table, chans, pairs)
      day(t)  == DayOf(t.occurred_at[1])
      periods == {<<MonthStart(day(t)), MonthEnd(day(t))>> : t \in ext}
      of(p)   == {t \in ext : MonthStart(day(t)) = p[1]}
  IN  {[period_start        |-> p[1],
        period_end          |-> p[2],
        operating_cash_flow |-> SumActivity(of(p), chans, "operating"),
        investing_cash_flow |-> SumActivity(of(p), chans, "investing"),
        financing_cash_flow |-> SumActivity(of(p), chans, "financing"),
        total_inflows       |-> SumF([t \in of(p) |-> IF t.amount > 0 THEN t.amount ELSE 0]),
        total_outflows      |-> SumF([t \in of(p) |-> IF t.amount < 0 THEN -t.amount ELSE 0]),
        net_cash_flow       |-> SumF([t \in of(p) |-> t.amount])] : p \in periods}

\* view cash_flow_monthly over the external asset transactions
cash_flow_monthly(table, chans, pairs) ==
  LET ext     == external_asset_transactions(table, chans, pairs)
      day(t)  == DayOf(t.occurred_at[1])
      periods == {<<MonthStart(day(t)), MonthEnd(day(t))>> : t \in ext}
      of(p)   == {t \in ext : MonthStart(day(t)) = p[1]}
  IN  {[period_start        |-> p[1],
        period_end          |-> p[2],
        operating_cash_flow |-> SumActivity(of(p), chans, "operating"),
        investing_cash_flow |-> SumActivity(of(p), chans, "investing"),
        financing_cash_flow |-> SumActivity(of(p), chans, "financing"),
        total_inflows       |-> SumF([t \in of(p) |-> IF t.amount > 0 THEN t.amount ELSE 0]),
        total_outflows      |-> SumF([t \in of(p) |-> IF t.amount < 0 THEN t.amount ELSE 0]),
        net_cash_flow       |-> SumF([t \in of(p) |-> t.amount])] : p \in periods}

(***************************************************************************)
(* Installment Amortization Calculator.                                    *)
(***************************************************************************)

\* raw ->> key of view card_installment_transactions, next to the
\* direction field "georaegubun"
InstallmentRawKeys == {"halbu", "sangpumgubun", "sangtae"}

IsDigit(ch) == ch \in {"0", "1", "2", "3", "4", "5", "6", "7", "8", "9"}

DigitValue(ch) ==
  CASE ch = "0" -> 0 [] ch = "1" -> 1 [] ch = "2" -> 2 [] ch = "3" -> 3 [] ch = "4" -> 4
    [] ch = "5" -> 5 [] ch = "6" -> 6 [] ch = "7" -> 7 [] ch = "8" -> 8 [] ch = "9" -> 9

\* text ~ '^[0-9]+$'
AllDigits(text) == text # <<>> /\ \A i \in 1..Len(text) : IsDigit(text[i])

\* regexp_replace(text, '[^0-9]', '', 'g')
OnlyDigits(text) == SelectSeq(text, IsDigit)

RECURSIVE ToInt(_)
\* digits::int
ToInt(digits) ==
  IF digits = <<>> THEN 0
  ELSE ToInt(SubSeq(digits, 1, Len(digits) - 1)) * 10 + DigitValue(digits[Len(digits)])

\* coalesce(text, '')
OrEmpty(text) == IF IsNull(text) THEN <<>> ELSE text[1]

\* CTE parsed: the month count of the first source that holds one
installment_months(t) ==
  LET meta  == OrEmpty(t.metadata.installment)
      halbu == OrEmpty(t.raw["halbu"])
      kind  == OnlyDigits(OrEmpty(t.raw["sangpumgubun"]))
      type  == OnlyDigits(t.transaction_type)
  IN  IF AllDigits(meta) THEN Some(ToInt(meta))
      ELSE IF AllDigits(halbu) THEN Some(ToInt(halbu))
      ELSE IF kind # <<>> THEN Some(ToInt(kind))
      ELSE IF type # <<>> THEN Some(ToInt(type))
      ELSE Null

CancelMarker == <<"chwi", "so">>

CorrectionMarker == <<"jeong", "jeong">>

\* view card_installment_transactions
card_installment_transactions(table, chans) ==
  {t \in table :
     /\ t.channel_id \in DOMAIN chans
     /\ ~IsNull(installment_months(t))
     /\ installment_months(t)[1] > 1
     /\ reporting_role(chans[t.channel_id]) = "liability"
     /\ ~Contains(Lower(t.transaction_type), CancelMarker)
     /\ ~Contains(Lower(t.transaction_type), CorrectionMarker)
     /\ ~Contains(Lower(OrEmpty(t.raw["sangtae"])), CancelMarker)
     /\ ~Contains(Lower(OrEmpty(t.raw["georaegubun"])), CancelMarker)}

\* Result scale of numeric division (select_div_scale) of a numeric(18,2)
\* value of a hundredths by an integer m below 10000: at least 16
\* significant digits, counted in base-10000 digits.
DivScale(a, m) ==
  LET whole       == a \div 100
      weight1     == IF whole >= 10000 THEN 1 ELSE IF whole >= 1 THEN 0 ELSE IF a > 0 THEN -1 ELSE 0
      firstdigit1 == IF whole >= 10000 THEN whole \div 10000
                     ELSE IF whole >= 1 THEN whole
                     ELSE (a % 100) * 100
      qweight     == IF firstdigit1 <= m THEN weight1 - 1 ELSE weight1
  IN  Max({16 - qweight * 4, 2})

RECURSIVE QuotientDigits(_, _, _)
\* the next n decimal digits of the long division with remainder rem
QuotientDigits(rem, m, n) ==
  IF n = 0 THEN <<>>
  ELSE <<(rem * 10) \div m>> \o QuotientDigits((rem * 10) % m, m, n - 1)

RECURSIVE RoundUp(_)
\* one unit added in the last place: the digits and the carry out of them
RoundUp(digits) ==
  IF digits = <<>> THEN [digits |-> <<>>, carry |-> 1]
  ELSE IF digits[Len(digits)] < 9
       THEN [digits |-> [digits EXCEPT ![Len(digits)] = @ + 1], carry |-> 0]
       ELSE LET front == RoundUp(SubSeq(digits, 1, Len(digits) - 1))
            IN  [digits |-> front.digits \o <<0>>, carry |-> front.carry]

\* numeric / integer: the quotient rounded half up at the result scale, as
\* a count of hundredths and the decimal digits after the hundredths
NumericDiv(a, m) ==
  LET n      == DivScale(a, m) - 2
      digits == QuotientDigits(a % m, m, n + 1)
      kept   == SubSeq(digits, 1, n)
      up     == RoundUp(kept)
  IN  IF digits[n + 1] < 5
      THEN [hundredths |-> a \div m, tail |-> kept]
      ELSE [hundredths |-> (a \div m) + up.carry, tail |-> up.digits]

\* a numeric that is a whole number of currency units
IsWhole(x) == x.hundredths % 100 = 0 /\ \A i \in 1..Len(x.tail) : x.tail[i] = 0

(***************************************************************************)
(* Double precision arithmetic of the installment views.  A float8 is a    *)
(* sign, a mantissa of 53 binary digits and the exponent of its leading    *)
(* digit: sign * mantissa * 2^(exponent - 52).                             *)
(***************************************************************************)

MantissaBits == 53

Float8Zero == [sign |-> 0, mantissa |-> <<>>, exponent |-> 0]

\* the w lowest binary digits of a natural number, the most significant first
FixedBits(n, w) == [i \in 1..w |-> (n \div 2 ^ (w - i)) % 2]

\* the binary digits from the first 1 on
StripZeros(bits) ==
  LET ones == {i \in 1..Len(bits) : bits[i] = 1}
  IN  IF ones = {} THEN <<>> ELSE SubSeq(bits, Min(ones), Len(bits))

\* the binary digits of a natural number below 2^30
Bits(n) == StripZeros(FixedBits(n, 30))

RECURSIVE BitsValue(_)
\* the number that a few binary digits stand for
BitsValue(bits) ==
  IF bits = <<>> THEN 0
  ELSE 2 * BitsValue(SubSeq(bits, 1, Len(bits) - 1)) + bits[Len(bits)]

Zeros(n) == [i \in 1..n |-> 0]

LimbBits == 13

RECURSIVE FractionTimes(_, _)
\* a decimal fraction times a natural number: the digits of the fraction
\* of the product and its whole part
FractionTimes(digits, k) ==
  IF digits = <<>> THEN [digits |-> <<>>, carry |-> 0]
  ELSE LET rest == FractionTimes(Tail(digits), k)
           v    == Head(digits) * k + rest.carry
       IN  [digits |-> <<v % 10>> \o rest.digits, carry |-> v \div 10]

RECURSIVE FractionBits(_, _)
\* the first n binary digits of a decimal fraction and what is left of
\* it, a limb of binary digits at a time
FractionBits(digits, n) ==
  IF n = 0 THEN [bits |-> <<>>, rest |-> digits]
  ELSE LET step    == Min({n, LimbBits})
           product == FractionTimes(digits, 2 ^ step)
           more    == FractionBits(product.digits, n - step)
       IN  [bits |-> FixedBits(product.carry, step) \o more.bits, rest |-> more.rest]

\* a binary number plus one: the digits and the carry out of them; a
\* digit changes when every digit below it is 1
IncrementBits(bits) ==
  [bits  |-> [i \in 1..Len(bits) |->
                IF \A k \in (i + 1)..Len(bits) : bits[k] = 1 THEN 1 - bits[i] ELSE bits[i]],
   carry |-> IF \A k \in 1..Len(bits) : bits[k] = 1 THEN 1 ELSE 0]

\* round to nearest, ties to even: binary digits that begin with 1, with
\* sticky telling of a non-zero rest below them; the mantissa and the
\* carry into the exponent
RoundToNearestEven(bits, sticky) ==
  IF Len(bits) <= MantissaBits
  THEN [mantissa |-> bits \o Zeros(MantissaBits - Len(bits)), carry |-> 0]
  ELSE LET kept    == SubSeq(bits, 1, MantissaBits)
           dropped == SubSeq(bits, MantissaBits + 1, Len(bits))
           more    == sticky \/ \E i \in 2..Len(dropped) : dropped[i] = 1
           up      == dropped[1] = 1 /\ (more \/ kept[MantissaBits] = 1)
           next    == IncrementBits(kept)
       IN  IF ~up THEN [mantissa |-> kept, carry |-> 0]
           ELSE IF next.carry = 0 THEN [mantissa |-> next.bits, carry |-> 0]
           ELSE [mantissa |-> <<1>> \o Zeros(MantissaBits - 1), carry |-> 1]

\* numeric::float8 of a non-negative numeric: the nearest double
NumericToFloat8(x) ==
  LET units    == Bits(x.hundredths \div 100)
      fraction == <<(x.hundredths % 100) \div 10, x.hundredths % 10>> \o x.tail
      \* 0.01 / 9999 and above has a 1 among its first 20 binary places
      places   == IF units = <<>> THEN MantissaBits + 21 ELSE MantissaBits + 1 - Len(units)
      binary   == FractionBits(fraction, IF places > 0 THEN places ELSE 0)
      all      == units \o binary.bits
      digits   == StripZeros(all)
      sticky   == \E i \in 1..Len(binary.rest) : binary.rest[i] # 0
      rounded  == RoundToNearestEven(digits, sticky)
  IN  IF digits = <<>> THEN Float8Zero
      ELSE [sign     |-> 1,
            mantissa |-> rounded.mantissa,
            exponent |-> Len(units) - 1 - (Len(all) - Len(digits)) + rounded.carry]

RECURSIVE TimesLimbs(_, _, _)
\* a binary number of whole limbs times a natural number below 2^14 plus
\* a carry in, a limb at a time from the lowest
TimesLimbs(bits, k, carry) ==
  IF bits = <<>> THEN Bits(carry)
  ELSE LET v == BitsValue(SubSeq(bits, Len(bits) - LimbBits + 1, Len(bits))) * k + carry
       IN  TimesLimbs(SubSeq(bits, 1, Len(bits) - LimbBits), k, v \div 2 ^ LimbBits)
             \o FixedBits(v % 2 ^ LimbBits, LimbBits)

\* a binary number times a natural number below 2^14
TimesBits(bits, k) ==
  StripZeros(TimesLimbs(Zeros((LimbBits - (Len(bits) % LimbBits)) % LimbBits) \o bits, k, 0))

\* float8 * float8 where the right operand is a whole number of months
Float8Times(x, k) ==
  IF x.sign = 0 \/ k = 0 THEN Float8Zero
  ELSE LET product == TimesBits(x.mantissa, k)
           rounded == RoundToNearestEven(product, FALSE)
       IN  [sign     |-> x.sign,
            mantissa |-> rounded.mantissa,
            exponent |-> x.exponent + (Len(product) - MantissaBits) + rounded.carry]

\* binary numbers of the same length compared
BitsLess(a, b) ==
  \E i \in 1..Len(a) : a[i] < b[i] /\ \A k \in 1..(i - 1) : a[k] = b[k]

\* x < y for doubles that are not negative
Float8Less(x, y) ==
  IF y.sign = 0 THEN FALSE
  ELSE IF x.sign = 0 THEN TRUE
  ELSE IF x.exponent # y.exponent THEN x.exponent < y.exponent
  ELSE BitsLess(x.mantissa, y.mantissa)

\* a - b for binary numbers of the same length, a not below b; a place
\* borrows when the places below it are less, up to the first that differs
MinusBits(a, b) ==
  [i \in 1..Len(a) |->
     LET borrow == IF BitsLess(SubSeq(a, i + 1, Len(a)), SubSeq(b, i + 1, Len(b))) THEN 1 ELSE 0
     IN  (a[i] - b[i] - borrow + 2) % 2]

\* float8 - float8 for doubles that are not negative
Float8Minus(x, y) ==
  IF y.sign = 0 THEN x
  ELSE IF x.sign = 0 THEN [y EXCEPT !.sign = -1]
  ELSE IF x = y THEN Float8Zero
  ELSE LET big     == IF Float8Less(x, y) THEN y ELSE x
           small   == IF Float8Less(x, y) THEN x ELSE y
           shift   == big.exponent - small.exponent
           exact   == StripZeros(MinusBits(big.mantissa \o Zeros(shift),
                                           Zeros(shift) \o small.mantissa))
           rounded == RoundToNearestEven(exact, FALSE)
       IN  [sign     |-> IF Float8Less(x, y) THEN -1 ELSE 1,
            mantissa |-> rounded.mantissa,
            exponent |-> small.exponent - (MantissaBits - 1) + Len(exact) - 1 + rounded.carry]

\* greatest(x, 0)
Float8NotBelowZero(x) == IF x.sign < 0 THEN Float8Zero ELSE x

\* CTE calc without greatest(..., 0)
months_elapsed_Unclamped(first_due_month, today) ==
  IF IsNull(first_due_month) THEN 0
  ELSE MonthOf(today) - MonthOf(first_due_month[1])

\* CTE calc: the year difference times 12 plus the month difference of
\* the current month and the first due month, not below 0; greatest()
\* skips the NULL of a purchase without timestamp
months_elapsed(first_due_month, today) ==
  IF IsNull(first_due_month) THEN 0
  ELSE Max({MonthOf(today) - MonthOf(first_due_month[1]), 0})

\* view card_installment_plans for the clock reading today.  paid_months,
\* remaining_months and remaining_principal are double precision values:
\* date_part() makes months_elapsed a double, so the product with the
\* numeric monthly_amount and the difference from the numeric total_amount
\* are computed in double precision.  The month counts are whole and exact.
card_installment_plans(table, chans, today) ==
  {LET months          == installment_months(t)[1]
       total_amount    == Abs(t.amount)
       monthly_amount  == NumericDiv(total_amount, months)
       first_due_month == IF IsNull(t.occurred_at) THEN Null
                          ELSE Some(MonthStart(DayOf(t.occurred_at[1])))
       elapsed         == months_elapsed(first_due_month, today)
       paid_months     == Min({elapsed, months})
   IN  [transaction_id      |-> TxId(t),
        channel_id          |-> t.channel_id,
        channel_name        |-> chans[t.channel_id].name,
        description         |-> t.description,
        purchase_date       |-> IF IsNull(t.occurred_at) THEN Null
                                ELSE Some(DayOf(t.occurred_at[1])),
        total_amount        |-> total_amount,
        installment_months  |-> months,
        monthly_amount      |-> monthly_amount,
        paid_months         |-> paid_months,
        remaining_months    |-> Max({months - elapsed, 0}),
        remaining_principal |-> Float8NotBelowZero(
                                  Float8Minus(NumericToFloat8([hundredths |-> total_amount, tail |-> <<>>]),
                                              Float8Times(NumericToFloat8(monthly_amount), paid_months))),
        first_due_month     |-> first_due_month,
        projected_end_date  |-> IF IsNull(first_due_month) THEN Null
                                ELSE Some(MonthStartTable[MonthOf(first_due_month[1]) + months] - 1)] :
     t \in card_installment_transactions(table, chans)}

\* date + (n || ' month')::interval for the first day of a month
AddMonths(first_of_month, n) == MonthStartTable[MonthOf(first_of_month) + n]

\* the schedule with the status test  sequence_index <= paid_months
card_installment_schedule_IndexInclusive(plans) ==
  {LET p              == gs[1]
       sequence_index == gs[2]
   IN  [transaction_id     |-> p.transaction_id,
        channel_id         |-> p.channel_id,
        channel_name       |-> p.channel_name,
        description        |-> p.description,
        total_amount       |-> p.total_amount,
        installment_months |-> p.installment_months,
        monthly_amount     |-> p.monthly_amount,
        first_due_month    |-> p.first_due_month,
        period_start       |-> IF IsNull(p.first_due_month) THEN Null
                               ELSE Some(AddMonths(p.first_due_month[1], sequence_index)),
        period_end         |-> IF IsNull(p.first_due_month) THEN Null
                               ELSE Some(AddMonths(p.first_due_month[1], sequence_index + 1) - 1),
        installment_number |-> sequence_index + 1,
        status             |-> IF sequence_index <= p.paid_months THEN "paid" ELSE "scheduled"] :
     gs \in {q \in plans \X (0..Max({r.installment_months : r \in plans} \cup {1}) - 1) :
               q[2] <= q[1].installment_months - 1}}

\* view card_installment_schedule over the rows of card_installment_plans:
\* one row for each plan and each sequence_index of
\* generate_series(0, installment_months - 1); the date columns are NULL
\* for a plan without first_due_month
card_installment_schedule(plans) ==
  {LET p              == gs[1]
       sequence_index == gs[2]
   IN  [transaction_id     |-> p.transaction_id,
        channel_id         |-> p.channel_id,
        channel_name       |-> p.channel_name,
        description        |-> p.description,
        total_amount       |-> p.total_amount,
        installment_months |-> p.installment_months,
        monthly_amount     |-> p.monthly_amount,
        first_due_month    |-> p.first_due_month,
        period_start       |-> IF IsNull(p.first_due_month) THEN Null
                               ELSE Some(AddMonths(p.first_due_month[1], sequence_index)),
        period_end         |-> IF IsNull(p.first_due_month) THEN Null
                               ELSE Some(AddMonths(p.first_due_month[1], sequence_index + 1) - 1),
        installment_number |-> sequence_index + 1,
        status             |-> IF sequence_index + 1 <= p.paid_months THEN "paid" ELSE "scheduled"] :
     gs \in {q \in plans \X (0..Max({r.installment_months : r \in plans} \cup {1}) - 1) :
               q[2] <= q[1].installment_months - 1}}

(***************************************************************************)
(* Income Source Classifier.                                               *)
(***************************************************************************)

\* d.raw ->> key of the lateral subquery
IncomeRawKeys == {"naeyong", "georae gigwan", "georaegigwan"}

InternalSource == "naebu iche"

OtherSource == "gita"

\* view income_source_aliases: (source_name, pattern)
income_source_aliases ==
  {[source_name |-> "jusikhoesa raijeun",  pattern |-> <<"ra", "i", "jeun">>],
   [source_name |-> "jusikhoesa iraenseo", pattern |-> <<"i", "raen", "seo">>],
   [source_name |-> "jusikhoesa iraenseo", pattern |-> <<"i", "raen", "seo", "choe", "jong", "hyeok">>],
   [source_name |-> "wiseupion",           pattern |-> <<"wi", "seu", "pi", "on", "geup", "yeo">>],
   [source_name |-> "wisiket",             pattern |-> <<"wi", "si", "ket">>],
   [source_name |-> InternalSource,        pattern |-> <<"choe", "jong", "hyeok">>],
   [source_name |-> InternalSource,        pattern |-> <<"mi", "sa", "1", "-", "2">>],
   [source_name |-> OtherSource,           pattern |-> <<>>]}

\* CTE deposits
deposits(table, chans) ==
  {t \in table :
     /\ t.amount > 0
     /\ t.channel_id \in DOMAIN chans
     /\ reporting_role(chans[t.channel_id]) = "asset"}

\* the where clause of the lateral subquery: a non-empty pattern that the
\* description or one of the three raw fields contains, compared in lower
\* case
AliasMatches(a, d) ==
  /\ a.pattern # <<>>
  /\ \/ Contains(Lower(d.description), Lower(a.pattern))
     \/ \E k \in IncomeRawKeys : Contains(Lower(OrEmpty(d.raw[k])), Lower(a.pattern))

\* the lateral subquery ordered by length(a.pattern) ascending
FirstMatched_ShortestFirst(d) ==
  LET matching == {a \in income_source_aliases : AliasMatches(a, d)}
  IN  {a \in matching : \A b \in matching : Len(b.pattern) >= Len(a.pattern)}

\* order by length(a.pattern) desc limit 1: the rows the subquery may
\* return, those of the greatest pattern length; no further sort key
\* orders patterns of equal length.
FirstMatched(d) ==
  LET matching == {a \in income_source_aliases : AliasMatches(a, d)}
  IN  {a \in matching : \A b \in matching : Len(b.pattern) <= Len(a.pattern)}

\* classified.source_name: coalesce(matched.source_name, '기타'), for each
\* row the lateral subquery may return
classified_source(d) ==
  IF FirstMatched(d) = {} THEN {OtherSource}
  ELSE {a.source_name : a \in FirstMatched(d)}

\* the period columns of CTE deposits; NULL for a NULL timestamp
DepositPeriod(d) ==
  IF IsNull(d.occurred_at) THEN Null
  ELSE Some(<<MonthStart(DayOf(d.occurred_at[1])), MonthEnd(DayOf(d.occurred_at[1]))>>)

\* the view without the where clause on classified.source_name
income_source_monthly_summary_KeepsInternal(table, chans) ==
  LET all  == deposits(table, chans)
      ways == {f \in [all -> {a.source_name : a \in income_source_aliases}] :
                 \A d \in all : f[d] \in classified_source(d)}
      groups(f)  == {<<DepositPeriod(d), f[d]>> : d \in all}
      of(f, g)   == {d \in all : <<DepositPeriod(d), f[d]>> = g}
  IN  {{[period           |-> g[1],
         source_name       |-> g[2],
         total_amount      |-> SumF([d \in of(f, g) |-> d.amount]),
         transaction_count |-> Cardinality(of(f, g))] : g \in groups(f)} : f \in ways}

\* view income_source_monthly_summary: one result for each way the
\* lateral subqueries may classify the deposits
income_source_monthly_summary(table, chans) ==
  LET all  == deposits(table, chans)
      ways == {f \in [all -> {a.source_name : a \in income_source_aliases}] :
                 \A d \in all : f[d] \in classified_source(d)}
      kept(f)    == {d \in all : f[d] # InternalSource}
      groups(f)  == {<<DepositPeriod(d), f[d]>> : d \in kept(f)}
      of(f, g)   == {d \in kept(f) : <<DepositPeriod(d), f[d]>> = g}
  IN  {{[period           |-> g[1],
         source_name       |-> g[2],
         total_amount      |-> SumF([d \in of(f, g) |-> d.amount]),
         transaction_count |-> Cardinality(of(f, g))] : g \in groups(f)} : f \in ways}

(***************************************************************************)
(* Report verification (verify-reporting).  The JSON numbers are taken as  *)
(* exact counts of hundredths.                                             *)
(***************************************************************************)

\* tolerance = 0.01, in hundredths
tolerance == 1

\* assertApproxEqual: the outcomes of  if (diff > tolerance) throw.  The
\* operands are binary doubles: a difference of two hundredths or more
\* exceeds the tolerance and equal amounts do not, while a difference of
\* exactly one hundredth comes out just above or not above the double 0.01
\* with the rounding of the operands (0.02 - 0.01 is not above it,
\* 1.01 - 1 is).
assertApproxEqual(actual, expected) ==
  LET diff == Abs(actual - expected)
  IN  IF diff > tolerance THEN {"throws"}
      ELSE IF diff < tolerance THEN {"returns"}
      ELSE {"throws", "returns"}

\* query channelBalances: balance_sheet_monthly_channel joined to
\* channel_roles
channelBalances(table, chans) ==
  {[period_start    |-> b.period_start,
    period_end      |-> b.period_end,
    channel_id      |-> b.channel_id,
    channel_name    |-> chans[b.channel_id].name,
    reporting_role  |-> reporting_role(chans[b.channel_id]),
    closing_balance |-> b.closing_balance] :
     b \in balance_sheet_monthly_channel(table, chans)}

\* query channelActivity: sum(amount) by month and channel of the
\* transactions with a timestamp
channelActivity(table) ==
  LET dated == {t \in table : ~IsNull(t.occurred_at)}
      keys  == {<<MonthStart(DayOf(t.occurred_at[1])), t.channel_id>> : t \in dated}
  IN  {[period_start |-> k[1],
        channel_id   |-> k[2],
        amount       |-> SumF([t \in {u \in dated : /\ MonthStart(DayOf(u.occurred_at[1])) = k[1]
                                                    /\ u.channel_id = k[2]}
                                |-> t.amount])] : k \in keys}

\* query externalMatchRows: cash_flow_monthly left joined to the monthly
\* sums over external_asset_transactions; each side evaluates the pairing
\* view
externalMatchRows(table, chans, pairs_cf, pairs_ext) ==
  LET ext      == external_asset_transactions(table, chans, pairs_ext)
      of(p)    == {t \in ext : MonthStart(DayOf(t.occurred_at[1])) = p}
      inflows(p)  == SumF([t \in of(p) |-> IF t.amount > 0 THEN t.amount ELSE 0])
      outflows(p) == SumF([t \in of(p) |-> IF t.amount < 0 THEN t.amount ELSE 0])
  IN  {[period_start |-> cf.period_start,
        inflow_diff  |-> cf.total_inflows - inflows(cf.period_start),
        outflow_diff |-> cf.total_outflows - outflows(cf.period_start)] :
       cf \in cash_flow_monthly(table, chans, pairs_cf)}

\* coalesce(t.raw ->> '거래구분', t.raw ->> '거래 구분', t.raw ->> '구분')
raw_hint(t) ==
  IF ~IsNull(t.raw["georaegubun"]) THEN t.raw["georaegubun"]
  ELSE IF ~IsNull(t.raw["georae gubun"]) THEN t.raw["georae gubun"]
  ELSE t.raw["gubun"]

\* query explicitSignViolations
explicitSignViolations(table, chans) ==
  LET marked(t, marker) == \/ StartsWith(t.transaction_type, marker)
                           \/ ~IsNull(raw_hint(t)) /\ StartsWith(raw_hint(t)[1], marker)
  IN  {t \in table :
         /\ t.channel_id \in DOMAIN chans
         /\ \/ marked(t, MinusMarker) /\ t.amount > 0
            \/ marked(t, PlusMarker) /\ t.amount < 0}

\* rows[i - 1], rows[i] of rows ordered by period_start
ConsecutiveRows(rows) ==
  {pc \in rows \X rows :
     /\ pc[1].period_start < pc[2].period_start
     /\ ~\E r \in rows : pc[1].period_start < r.period_start /\ r.period_start < pc[2].period_start}

\* main: the exit codes the run may end with, 1 after  main().catch  saw
\* an error thrown by one of the guards, by one of the assertions of
\* checks 1 to 5 or for a balance sheet month after the first without a
\* cash flow row, 0 after the success message
main(summaries, cashflows, balances, activity, externalRows, signViolations) ==
  LET fromChannels(s, role) ==
        SumF([c \in {b \in balances : b.period_start = s.period_start /\ b.reporting_role = role}
                |-> c.closing_balance])
      activityOf(channel_id, period_start) ==
        LET hit == {a \in activity : a.channel_id = channel_id /\ a.period_start = period_start}
        IN  IF hit = {} THEN 0 ELSE (CHOOSE a \in hit : TRUE).amount
      cashflowOf(s) == {cf \in cashflows : cf.period_start = s.period_start}
      check1 == UNION {{<<s.assets - s.liabilities, s.equity>>,
                        <<fromChannels(s, "asset"), s.assets>>,
                        <<fromChannels(s, "liability"), s.liabilities>>} : s \in summaries}
      check2 == {<<cf.operating_cash_flow + cf.investing_cash_flow + cf.financing_cash_flow,
                   cf.net_cash_flow>> : cf \in cashflows}
      check3 == UNION {{<<pc[2].closing_balance - pc[1].closing_balance,
                          activityOf(id, pc[2].period_start)>> :
                          pc \in ConsecutiveRows({b \in balances : b.channel_id = id})} :
                         id \in {b.channel_id : b \in balances}}
      check4 == UNION {{<<row.inflow_diff, 0>>, <<row.outflow_diff, 0>>} : row \in externalRows}
      check5 == UNION {{<<pc[2].assets - pc[1].assets, cf.net_cash_flow>> : cf \in cashflowOf(pc[2])} :
                         pc \in ConsecutiveRows(summaries)}
      thrown == \/ summaries = {}
                \/ cashflows = {}
                \/ balances = {}
                \/ signViolations # {}
                \/ \E pc \in ConsecutiveRows(summaries) : cashflowOf(pc[2]) = {}
      assertions == check1 \cup check2 \cup check3 \cup check4 \cup check5
  IN  {1 : x \in {a \in {0} : thrown \/ \E c \in assertions :
                                          "throws" \in assertApproxEqual(c[1], c[2])}}
        \cup
      {0 : x \in {a \in {0} : ~thrown /\ \A c \in assertions :
                                           "returns" \in assertApproxEqual(c[1], c[2])}}

(***************************************************************************)
(* Inputs.                                                                 *)
(***************************************************************************)

\* the largest number of rows of public.transactions
MaxTx == 3

ChannelIds == {"X", "Y", "Z"}

Channel(name, role, activity) ==
  [name |-> name, metadata |-> [reporting_role |-> role, cash_flow_activity |-> activity]]

BankName == <<"to", "seu">>

OtherBankName == <<"K", "B">>

CardName == <<"hyeon", "dae", "ka", "deu">>

CoupangCardName == <<"ku", "pang", "ka", "deu">>

\* channels classified by the name heuristics and the defaults, one with
\* a documented activity override
DefaultChannels ==
  [c \in ChannelIds |->
     CASE c = "X" -> Channel(BankName, Null, Null)
       [] c = "Y" -> Channel(OtherBankName, Null, Some("investing"))
       [] c = "Z" -> Channel(CardName, Null, Null)]

\* a marketplace card, and a card overridden to an asset
OverrideChannels ==
  [c \in ChannelIds |->
     CASE c = "X" -> Channel(BankName, Null, Some("financing"))
       [] c = "Y" -> Channel(CoupangCardName, Null, Null)
       [] c = "Z" -> Channel(CardName, Some("asset"), Null)]

\* metadata is free-form jsonb: an activity outside the documented values,
\* a liability override and the reserved role equity
FreeFormChannels ==
  [c \in ChannelIds |->
     CASE c = "X" -> Channel(BankName, Null, Some("savings"))
       [] c = "Y" -> Channel(OtherBankName, Some("liability"), Null)
       [] c = "Z" -> Channel(BankName, Some("equity"), Null)]

\* nothing constrains the role text either: a role no view knows
UnknownRoleChannels ==
  [c \in ChannelIds |->
     CASE c = "X" -> Channel(BankName, Null, Null)
       [] c = "Y" -> Channel(OtherBankName, Some("cash"), Null)
       [] c = "Z" -> Channel(CardName, Null, Null)]

ChannelTables == {DefaultChannels, OverrideChannels, FreeFormChannels, UnknownRoleChannels}

\* timestamp of day dd (1-based) of month m (months since 2024-01)
At(m, dd, hh, mi, ss) ==
  (MonthStartTable[m] + dd - 1) * SecondsPerDay + (hh * 60 + mi) * 60 + ss

\* 2024-06-30 23:50:00, 23:57:30, 2024-07-01 00:05:00, 2024-07-03 12:00:00:
\* around the end of a month, quarter and half-year, 450 s apart (900 s
\* from the first to the third), and one two days later.
Instants == {At(5, 30, 23, 50, 0), At(5, 30, 23, 57, 30), At(6, 1, 0, 5, 0), At(6, 3, 12, 0, 0)}

\* 2024-07-01 00:05:01, 901 s after the first
JustOutside == At(6, 1, 0, 5, 1)

\* 2024-08-01 12:00:00, a month after the others
LateInstant == At(7, 1, 12, 0, 0)

\* the keys of the raw jsonb the engine reads
RawFields == RawKeys \cup IncomeRawKeys \cup InstallmentRawKeys

NoRaw == [k \in RawFields |-> Null]

\* the date of day dd (1-based) of month m (months since 2024-01)
DateOf(m, dd) == MonthStartTable[m] + dd - 1

\* the clock starts on 2024-03-01
FirstDate == DateOf(2, 1)

\* later readings of the clock: 2024-06-30, 2024-07-01, 2025-01-01
LaterDates == {DateOf(5, 30), DateOf(6, 1), DateOf(12, 1)}

\* record.metadata without an installment count
NoMetadata == [installment |-> Null]

PlainType == <<"i", "che">>

\* records of the exported JSON files: an id unique within the file, a
\* parsed timestamp or none, an amount in hundredths
Record(occurredAt, amount, transactionType, raw) ==
  [ id              |-> <<occurredAt, amount>>,
    occurredAt      |-> occurredAt,
    description     |-> Null,
    amount          |-> amount,
    transactionType |-> transactionType,
    metadata        |-> NoMetadata,
    raw             |-> raw ]

LedgerRecords(account) ==
  IF account = "Z"
  THEN {Record(Some(At(5, 30, 23, 50, 0)), -5000000, Some(PlainType), NoRaw),
        Record(Some(At(6, 1, 0, 5, 0)), 5000000, Some(PlainType), NoRaw),
        Record(Some(LateInstant), -5000000, Some(PlainType), NoRaw)}
  ELSE {Record(Some(i), a, Some(PlainType), NoRaw) : i \in Instants, a \in {-5000000, 5000000}}
         \cup (IF account = "X"
               THEN {Record(Null, 5000000, Some(PlainType), NoRaw)}
               ELSE {Record(Some(At(5, 30, 23, 57, 30)), 7000000, Some(PlainType), NoRaw),
                     Record(Some(JustOutside), 5000000, Some(PlainType), NoRaw)})

\* one exported file per account, holding one of its records
LedgerFiles ==
  UNION {{[sourceFile |-> c, account |-> c, records |-> {r}] : r \in LedgerRecords(c)} :
           c \in ChannelIds}

MinusType == <<"[", "-", "]", " ", "gyeol", "je">>

PlusType == <<"[", "+", "]", " ", "chung", "jeon">>

MarkerTexts == {Some(MinusType), Some(PlusType)}

\* records whose only difference is polarity: every combination of a type
\* text and the three raw direction fields, with either stored sign or zero
SignRecords ==
  {[ id              |-> "r1",
     occurredAt      |-> Some(At(5, 30, 23, 50, 0)),
     description     |-> Null,
     amount          |-> a,
     transactionType |-> ty,
     metadata        |-> NoMetadata,
     raw             |-> [k \in RawFields |-> IF k \in RawKeys THEN rw[k] ELSE Null] ] :
     a \in {-1500000, 0, 1500000},
     ty \in MarkerTexts \cup {Null, Some(PlainType), Some(<<" ">> \o MinusType), Some(<<" ">> \o PlusType)},
     rw \in {f \in [RawKeys -> MarkerTexts \cup {Null, Some(<<" ">> \o MinusType)}] :
               \A k \in RawKeys : k # "gubun" => f[k] \in MarkerTexts \cup {Null}}}

SignFiles == {[sourceFile |-> "X", account |-> "X", records |-> {r}] : r \in SignRecords}

\* a purchase record of a card statement
CardRecord(id, occurredAt, amount, transactionType, installment, raw) ==
  [ id              |-> id,
    occurredAt      |-> occurredAt,
    description     |-> Null,
    amount          |-> amount,
    transactionType |-> Some(transactionType),
    metadata        |-> [installment |-> installment],
    raw             |-> raw ]

LumpSumType == <<"il", "si", "bul">>

InstallmentType == <<"hal", "bu">>

\* purchases with a month count in metadata, in raw "halbu", in the digits
\* of raw "sangpumgubun" or in the digits of the type text; one without a
\* timestamp, one cancelled, one paid at once.  120000.00 over 4 months
\* from 2024-01-15; 100000.00 over 3 and 100.00 over 6 around 2024-07-01;
\* 15000.00 over 7 months from 2024-01-15.
CardRecords ==
  {CardRecord("p1", Some(At(0, 15, 10, 0, 0)), -12000000, LumpSumType, Some(<<"4">>), NoRaw),
   CardRecord("p2", Some(At(5, 30, 23, 50, 0)), -10000000, LumpSumType, Some(<<>>),
              [NoRaw EXCEPT !["halbu"] = Some(<<"0", "3">>)]),
   CardRecord("p3", Some(At(6, 1, 0, 5, 0)), -10000, LumpSumType, Null,
              [NoRaw EXCEPT !["sangpumgubun"] = Some(<<"hal", "bu", " ", "6", "gae", "wol">>)]),
   CardRecord("p4", Null, -12000000, InstallmentType \o <<"(", "2", ")">>, Null, NoRaw),
   CardRecord("p5", Some(At(0, 15, 10, 0, 0)), 12000000,
              InstallmentType \o <<" ">> \o CancelMarker, Some(<<"4">>), NoRaw),
   CardRecord("p6", Some(At(0, 15, 10, 0, 0)), -12000000, LumpSumType, Some(<<"1">>), NoRaw),
   CardRecord("p7", Some(At(0, 15, 10, 0, 0)), -10000000, InstallmentType \o <<"1", "2">>, Null, NoRaw),
   CardRecord("p8", Some(At(0, 15, 10, 0, 0)), -1500000, LumpSumType, Some(<<"7">>), NoRaw)}

\* one statement per card account, holding one of the purchases; Z is the
\* card by name, Y a liability by override in one of the channel tables
CardFiles ==
  {[sourceFile |-> c, account |-> c, records |-> {r}] : c \in {"Y", "Z"}, r \in CardRecords}

\* a record of a bank statement with its description
BankRecord(id, occurredAt, amount, description, raw) ==
  [ id              |-> id,
    occurredAt      |-> occurredAt,
    description     |-> description,
    amount          |-> amount,
    transactionType |-> Some(PlainType),
    metadata        |-> NoMetadata,
    raw             |-> raw ]

RaijeunText == <<"ra", "i", "jeun">>

OwnerText == <<"choe", "jong", "hyeok">>

\* deposits naming one source, a source and the owner in one word (the
\* longer pattern holds both shorter ones), the owner alone, a source and
\* the owner as two words (two patterns of equal length), no source, and
\* a source in a raw field only; one without timestamp; and a withdrawal
\* that pairs with the first deposit on the other account
IncomeRecords ==
  {BankRecord("d1", Some(At(5, 30, 23, 50, 0)), 5000000, Some(RaijeunText), NoRaw),
   BankRecord("d2", Some(At(6, 1, 0, 5, 0)), 7000000,
              Some(<<"i", "raen", "seo">> \o OwnerText), NoRaw),
   BankRecord("d3", Some(At(5, 30, 23, 50, 0)), 3000000, Some(OwnerText), NoRaw),
   BankRecord("d4", Some(At(5, 30, 23, 57, 30)), 2000000,
              Some(RaijeunText \o <<" ">> \o OwnerText), NoRaw),
   BankRecord("d5", Null, 1000000, Some(<<"ip", "geum">>), NoRaw),
   BankRecord("d6", Some(At(6, 1, 0, 5, 0)), 4000000, Null,
              [NoRaw EXCEPT !["naeyong"] = Some(<<"K", "B", " ", "wi", "si", "ket">>)]),
   BankRecord("d7", Some(At(5, 30, 23, 50, 0)), -5000000, Some(<<"i", "che">>), NoRaw)}

\* one statement per account, holding one of the records; Z is a card in
\* two of the channel tables
IncomeFiles ==
  {[sourceFile |-> c, account |-> c, records |-> {r}] : c \in {"X", "Y"}, r \in IncomeRecords}
    \cup {[sourceFile |-> "Z", account |-> "Z", records |-> {r}] :
            r \in {q \in IncomeRecords : q.id = "d1"}}

\* records of one and of two hundredths late on 2024-06-30, early on
\* 2024-07-01 and on 2024-07-03, and one record whose type and raw
\* direction field carry opposite markers
VerifyRecords(account) ==
  LET instants == {At(5, 30, 23, 50, 0), At(6, 1, 0, 5, 0), At(6, 3, 12, 0, 0)}
  IN  IF account = "X"
      THEN {Record(Some(i), a, Some(PlainType), NoRaw) : i \in instants, a \in {-1, 1, -2}}
             \cup {Record(Some(At(6, 3, 12, 0, 0)), 1, Some(PlusType),
                          [NoRaw EXCEPT !["gubun"] = Some(MinusType)])}
      ELSE {Record(Some(i), a, Some(PlainType), NoRaw) : i \in instants, a \in {1, 2}}

\* one exported file per bank account, holding one of its records
VerifyFiles ==
  UNION {{[sourceFile |-> c, account |-> c, records |-> {r}] : r \in VerifyRecords(c)} :
           c \in {"X", "Y"}}

\* a row stored before the generator normalised signs (db-schema.md: data
\* of the past with a wrong sign)
LegacyRow(json, record) == [InsertValues(json, record) EXCEPT !.amount = record.amount]

(***************************************************************************)
(* Operations.                                                             *)
(***************************************************************************)

\* the reporting views are recomputed on every read; transfers is what the
\* pairing view yields over the present tables
Init ==
  /\ channels \in ChannelTables
  /\ transactions = {}
  /\ transfers = {}
  /\ backfill_input = Null
  /\ current_date = FirstDate
  /\ verify_exit = Null

\* the table is empty or holds a row of the past whose sign the generator
\* of today would have stored otherwise
InitSign ==
  /\ channels = DefaultChannels
  /\ transactions \in {{}} \cup {{LegacyRow(f, r) : r \in f.records} :
                                   f \in {g \in SignFiles :
                                            \E r \in g.records : normalizeAmount(r) # r.amount}}
  /\ transfers = {}
  /\ backfill_input = Null
  /\ current_date = FirstDate
  /\ verify_exit = Null

\* psql runs the DO block generateSqlForFile wrote for one JSON file
Ingest(json) ==
  /\ json.records # {}
  /\ json.account \in DOMAIN channels
  /\ LET inserted == InsertTransactions(json, transactions)
     IN  /\ Cardinality(inserted) <= MaxTx
         /\ transactions' = inserted
  /\ transfers' \in internal_asset_transfers(transactions', channels)
  /\ backfill_input' = IF transactions' = transactions THEN backfill_input ELSE Null
  /\ verify_exit' = IF transactions' = transactions THEN verify_exit ELSE Null
  /\ UNCHANGED <<channels, current_date>>

\* psql runs fix_amount_signs.sql
Backfill ==
  /\ transactions' = fix_amount_signs(transactions)
  /\ transfers' \in internal_asset_transfers(transactions', channels)
  /\ backfill_input' = Some(transactions)
  /\ verify_exit' = IF transactions' = transactions THEN verify_exit ELSE Null
  /\ UNCHANGED <<channels, current_date>>

\* a reader queries the views again
Query ==
  /\ transfers' \in internal_asset_transfers(transactions, channels)
  /\ UNCHANGED <<channels, transactions, backfill_input, current_date, verify_exit>>

\* npx ts-node verify-reporting.ts: every query evaluates the views anew
Verify ==
  /\ \E pairs \in internal_asset_transfers(transactions, channels),
        pairs_cf \in internal_asset_transfers(transactions, channels),
        pairs_ext \in internal_asset_transfers(transactions, channels) :
       verify_exit' \in
         {Some(code) : code \in main(balance_sheet_monthly_summary(transactions, channels),
                                     cash_flow_monthly(transactions, channels, pairs),
                                     channelBalances(transactions, channels),
                                     channelActivity(transactions),
                                     externalMatchRows(transactions, channels, pairs_cf, pairs_ext),
                                     explicitSignViolations(transactions, channels))}
  /\ UNCHANGED <<channels, transactions, transfers, backfill_input, current_date>>

\* the clock moves on to a later day
Tick ==
  /\ \E d \in LaterDates : d > current_date /\ current_date' = d
  /\ UNCHANGED <<channels, transactions, transfers, backfill_input, verify_exit>>

Next ==
  \/ \E json \in LedgerFiles : Ingest(json)
  \/ Query

Spec == Init /\ [][Next]_vars

NextSign ==
  \/ \E json \in SignFiles : Ingest(json)
  \/ Backfill

SpecSign == InitSign /\ [][NextSign]_vars

NextCard ==
  \/ \E json \in CardFiles : Ingest(json)
  \/ Tick

SpecCard == Init /\ [][NextCard]_vars

NextIncome ==
  \/ \E json \in IncomeFiles : Ingest(json)
  \/ Query

SpecIncome == Init /\ [][NextIncome]_vars

NextVerify ==
  \/ \E json \in VerifyFiles : Ingest(json)
  \/ Verify

SpecVerify == Init /\ [][NextVerify]_vars

TypeOK ==
  /\ channels \in ChannelTables
  /\ Cardinality(transactions) <= MaxTx
  /\ Len(backfill_input) <= 1
  /\ current_date \in {FirstDate} \cup LaterDates
  /\ verify_exit \in {Null, Some(0), Some(1)}

(***************************************************************************)
(* Properties.                                                             *)
(***************************************************************************)

MonthlySummary == balance_sheet_monthly_summary(transactions, channels)

MonthlyChannel == balance_sheet_monthly_channel(transactions, channels)

CashFlow == cash_flow_monthly(transactions, channels, transfers)

AllSummaries ==
  MonthlySummary
    \cup balance_sheet_quarterly_summary(transactions, channels)
    \cup balance_sheet_half_year_summary(transactions, channels)

\* C1: in every summary row of the monthly, quarterly and half-year balance
\* sheet, equity equals assets minus liabilities exactly.
C1_EquityIsAssetsMinusLiabilities ==
  \A row \in AllSummaries : row.equity = row.assets - row.liabilities

\* a period with assets, liabilities and a balance on a channel that is
\* neither
C1_Witness ==
  \E row \in MonthlySummary :
    /\ row.assets # 0
    /\ row.liabilities # 0
    /\ \E b \in MonthlyChannel :
         /\ b.period_start = row.period_start
         /\ b.closing_balance # 0
         /\ reporting_role(channels[b.channel_id]) \notin {"asset", "liability"}

\* net cash flow reported for the month starting at period_start; a month
\* without a row reports nothing, read as zero
NetCashFlowOf(period_start) ==
  LET rows == {r \in CashFlow : r.period_start = period_start}
  IN  IF rows = {} THEN 0 ELSE (CHOOSE r \in rows : TRUE).net_cash_flow

\* C2: for consecutive monthly periods p1, p2 the assets at the end of p2
\* minus the assets at the end of p1 equal the net cash flow of month p2.
C2_AssetDeltaIsNetCashFlow ==
  \A p1 \in MonthlySummary, p2 \in MonthlySummary :
    p2.period_start = p1.period_end + 1
      => p2.assets - p1.assets = NetCashFlowOf(p2.period_start)

\* C3: in every row of the monthly cash flow report operating + investing
\* + financing cash flow equals net cash flow.
C3_ActivitiesSumToNet ==
  \A r \in CashFlow :
    r.operating_cash_flow + r.investing_cash_flow + r.financing_cash_flow = r.net_cash_flow

\* C4: every transaction id appears in at most one matched pair, and never
\* on both sides.
C4_MatchingIsOneToOne ==
  \A p \in transfers :
    /\ p.out_id # p.in_id
    /\ \A q \in transfers :
         q # p => {p.out_id, p.in_id} \cap {q.out_id, q.in_id} = {}

\* a matched pair whose inbound leg was a candidate of a second outbound
\* transaction as well
C4_Witness ==
  \E p \in transfers :
    \E c \in candidates(transactions, channels) :
      TxId(c[2]) = p.in_id /\ TxId(c[1]) # p.out_id

\* the JSON record a stored row came from, up to its amount
AsRecord(t) ==
  [ id              |-> t.record_id,
    occurredAt      |-> t.occurred_at,
    amount          |-> t.amount,
    transactionType |-> Some(t.transaction_type),
    raw             |-> t.raw ]

Backfilled == ~IsNull(backfill_input)

\* C5: normalizeAmount applied to its own result returns that result, and
\* a second run of the backfill script over a table it has just run on
\* changes no amount.
C5_NormalizerIsIdempotent ==
  /\ \A t \in transactions :
       LET once == normalizeAmount(AsRecord(t))
       IN  normalizeAmount([AsRecord(t) EXCEPT !.amount = once]) = once
  /\ Backfilled => fix_amount_signs(transactions) = transactions

\* the backfill has run and has changed an amount
C5_Witness == Backfilled /\ backfill_input[1] # transactions

\* the text fields of a stored row that carry direction
DirectionTexts(t) ==
  {t.transaction_type} \cup {t.raw[k][1] : k \in {j \in RawKeys : ~IsNull(t.raw[j])}}

\* a field begins with the marker (LIKE 'marker%')
LikeMarker(t, marker) == \E text \in DirectionTexts(t) : StartsWith(text, marker)

SignAgrees(t) ==
  /\ ~(LikeMarker(t, MinusMarker) /\ t.amount > 0)
  /\ ~(LikeMarker(t, PlusMarker) /\ t.amount < 0)

SignOf(n) == IF n > 0 THEN 1 ELSE IF n < 0 THEN -1 ELSE 0

\* what the claim asks of a result, given the polarities the markers show
SignOnlyResult(amount, polarities, result) ==
  /\ Abs(result) = Abs(amount)
  /\ \A sign \in {-1, 1} :
       (polarities = {sign} /\ SignOf(amount) # sign) => result = Abs(amount) * sign
  /\ (polarities = {} \/ polarities = {SignOf(amount)}) => result = amount

\* polarities of the markers normalizeAmount reads: fields that begin with
\* a marker once trimmed
TrimmedPolarities(t) ==
  {sign \in {-1, 1} :
     \E text \in DirectionTexts(t) :
       StartsWith(Trim(text), IF sign = 1 THEN PlusMarker ELSE MinusMarker)}

\* polarities of the markers the backfill script reads
LikePolarities(t) ==
  {sign \in {-1, 1} : LikeMarker(t, IF sign = 1 THEN PlusMarker ELSE MinusMarker)}

\* C7: both forms change the sign only: the magnitude stays, a marker of
\* one polarity that disagrees with the sign yields |amount| times the
\* marker sign, and without a marker or with an agreeing one the amount is
\* unchanged.
C7_NormalizerChangesSignOnly ==
  /\ \A t \in transactions :
       SignOnlyResult(t.amount, TrimmedPolarities(t), normalizeAmount(AsRecord(t)))
  /\ Backfilled =>
       /\ {TxId(t) : t \in transactions} = {TxId(b) : b \in backfill_input[1]}
       /\ \A b \in backfill_input[1] :
            \E t \in transactions :
              /\ t = [b EXCEPT !.amount = t.amount]
              /\ SignOnlyResult(b.amount, LikePolarities(b), t.amount)

\* type '[-] gyeolje' stored with +15000.00 was turned to -15000.00
C7_Witness ==
  /\ Backfilled
  /\ \E b \in backfill_input[1], t \in transactions :
       /\ TxId(b) = TxId(t)
       /\ b.transaction_type = MinusType
       /\ b.amount = 1500000
       /\ t.amount = -1500000

IsAssetTransaction(t) ==
  ~IsNull(t.occurred_at) /\ reporting_role(channels[t.channel_id]) = "asset"

\* an outbound and an inbound asset transaction on different channels, of
\* equal magnitude, at most 15 minutes apart
ArePartners(o, i) ==
  /\ IsAssetTransaction(o)
  /\ IsAssetTransaction(i)
  /\ o.amount < 0
  /\ i.amount > 0
  /\ o.channel_id # i.channel_id
  /\ Abs(o.amount) = Abs(i.amount)
  /\ Abs(i.occurred_at[1] - o.occurred_at[1]) <= 15 * 60

\* neither has another candidate partner
AreOnlyPartners(o, i) ==
  /\ ArePartners(o, i)
  /\ \A x \in transactions : (ArePartners(o, x) => x = i) /\ (ArePartners(x, i) => x = o)

PairOf(o, i) == [out_id |-> TxId(o), in_id |-> TxId(i)]

\* C8: two partners without other candidates are a matched pair, both are
\* absent from the external asset transactions, and the cash flow report
\* is the one of the ledger without the two.
C8_LonePartnersAreMatchedAndExcluded ==
  \A o \in transactions, i \in transactions :
    AreOnlyPartners(o, i) =>
      /\ PairOf(o, i) \in transfers
      /\ {o, i} \cap external_asset_transactions(transactions, channels, transfers) = {}
      /\ CashFlow = cash_flow_monthly(transactions \ {o, i}, channels, transfers \ {PairOf(o, i)})

\* lone partners exactly 900 seconds apart, next to an external
\* transaction that does show in the cash flow report
C8_Witness ==
  /\ CashFlow # {}
  /\ \E o \in transactions, i \in transactions :
       /\ AreOnlyPartners(o, i)
       /\ Abs(i.occurred_at[1] - o.occurred_at[1]) = 900
       /\ PairOf(o, i) \in transfers

\* closing balances of the per-channel breakdown of one monthly period,
\* for the channels of one role
BreakdownSum(period_start, role) ==
  SumF([b \in {x \in MonthlyChannel :
                 /\ x.period_start = period_start
                 /\ reporting_role(channels[x.channel_id]) = role}
         |-> b.closing_balance])

\* C9: the assets (liabilities) of every monthly summary row are the sum
\* of the period-end balances of exactly the asset (liability) channels of
\* the per-channel breakdown of that period.
C9_SummaryIsSumOverRole ==
  \A row \in MonthlySummary :
    /\ row.assets = BreakdownSum(row.period_start, "asset")
    /\ row.liabilities = BreakdownSum(row.period_start, "liability")

\* a period in which an asset channel, a liability channel and a channel
\* of another role all close with a balance
C9_Witness ==
  \E row \in MonthlySummary :
    \A kind \in {"asset", "liability", "other"} :
      \E b \in MonthlyChannel :
        /\ b.period_start = row.period_start
        /\ b.closing_balance # 0
        /\ (IF kind = "other"
            THEN reporting_role(channels[b.channel_id]) \notin {"asset", "liability"}
            ELSE reporting_role(channels[b.channel_id]) = kind)

DailyBalances == channel_daily_balances(transactions, channels)

\* the dated transactions of a channel
DatedOf(channel_id) ==
  {t \in transactions : t.channel_id = channel_id /\ ~IsNull(t.occurred_at)}

\* C10: every closing balance is the sum of the channel's amounts dated on
\* or before that day, and between two consecutive month ends a channel's
\* balance moves by the sum of its amounts dated in the later month.
C10_ClosingBalanceIsRunningTotal ==
  /\ \A b \in DailyBalances :
       b.closing_balance =
         SumF([t \in {u \in DatedOf(b.channel_id) : DayOf(u.occurred_at[1]) <= b.calendar_date}
                |-> t.amount])
  /\ \A r1 \in MonthlyChannel, r2 \in MonthlyChannel :
       (r1.channel_id = r2.channel_id /\ r2.period_start = r1.period_end + 1) =>
         r2.closing_balance - r1.closing_balance =
           SumF([t \in {u \in DatedOf(r2.channel_id) :
                          MonthStart(DayOf(u.occurred_at[1])) = r2.period_start}
                  |-> t.amount])

\* a balance carried over a day without a transaction of the channel, and
\* a channel whose balance moves from one month end to the next
C10_Witness ==
  /\ \E b \in DailyBalances :
       /\ b.closing_balance # 0
       /\ \A t \in DatedOf(b.channel_id) : DayOf(t.occurred_at[1]) # b.calendar_date
  /\ \E r1 \in MonthlyChannel, r2 \in MonthlyChannel :
       /\ r1.channel_id = r2.channel_id
       /\ r2.period_start = r1.period_end + 1
       /\ r1.closing_balance # 0
       /\ r2.closing_balance # r1.closing_balance

\* the external asset transactions of one month: dated transactions of
\* asset channels that are on neither side of a matched pair
ExternalOfMonth(period_start) ==
  {t \in transactions :
     /\ IsAssetTransaction(t)
     /\ MonthStart(DayOf(t.occurred_at[1])) = period_start
     /\ ~\E p \in transfers : TxId(t) \in {p.out_id, p.in_id}}

\* C11: in every row of the monthly cash flow report total inflow is the
\* sum of the positive amounts and total outflow the sum of the negative
\* amounts of the month's external asset transactions, and net cash flow
\* is total inflow + total outflow.
C11_InflowOutflowAreSignedSums ==
  \A r \in CashFlow :
    /\ r.total_inflows =
         SumF([t \in {u \in ExternalOfMonth(r.period_start) : u.amount > 0} |-> t.amount])
    /\ r.total_outflows =
         SumF([t \in {u \in ExternalOfMonth(r.period_start) : u.amount < 0} |-> t.amount])
    /\ r.net_cash_flow = r.total_inflows + r.total_outflows

\* a month with an external inflow and an external outflow of different
\* magnitudes
C11_Witness ==
  \E r \in CashFlow :
    /\ r.total_inflows > 0
    /\ r.total_outflows < 0
    /\ r.net_cash_flow # 0

Plans == card_installment_plans(transactions, channels, current_date)

RECURSIVE TimesDigits(_, _, _)
\* a digit sequence times a small integer plus a carry in: the digits and
\* the carry out
TimesDigits(digits, k, carry) ==
  IF digits = <<>> THEN [digits |-> <<>>, carry |-> carry]
  ELSE LET v     == digits[Len(digits)] * k + carry
           front == TimesDigits(SubSeq(digits, 1, Len(digits) - 1), k, v \div 10)
       IN  [digits |-> front.digits \o <<v % 10>>, carry |-> front.carry]

\* the exact product of a numeric and a small integer
Times(x, k) ==
  LET f == TimesDigits(x.tail, k, 0)
  IN  [hundredths |-> x.hundredths * k + f.carry, tail |-> f.digits]

\* x is the quotient total / k to the last decimal place it has: k times x
\* is off total by at most k/2 units of that place
IsQuotient(x, total, k) ==
  LET p    == Times(x, k)
      n    == Len(p.tail)
      last == p.tail[n - 1] * 10 + p.tail[n]
  IN  /\ n >= 2
      /\ \/ /\ p.hundredths = total
            /\ \A i \in 1..(n - 2) : p.tail[i] = 0
            /\ 2 * last <= k
         \/ /\ p.hundredths = total - 1
            /\ \A i \in 1..(n - 2) : p.tail[i] = 9
            /\ 2 * (100 - last) <= k

\* the calendar months that begin after day from and not after day to, as
\* months since 2024-01
MonthsBegunBetween(from, to) ==
  {m \in MonthRange : from < MonthStartTable[m] /\ MonthStartTable[m] <= to}

\* max(0, calendar months from the purchase month to the current month)
MonthsElapsed(purchase_date) == Cardinality(MonthsBegunBetween(purchase_date, current_date))

\* the stored purchase a plan row is about
PurchaseOf(p) == CHOOSE t \in transactions : TxId(t) = p.transaction_id

\* C12: for every plan of a qualifying purchase and every reading of the
\* clock, monthly_amount is |amount| / months (to the last place of the
\* numeric quotient), paid_months = min(monthsElapsed, months) and
\* remaining_months = max(0, months - monthsElapsed) with monthsElapsed
\* the calendar months from the purchase month to the current month, never
\* negative; so 0 <= paid_months <= months and paid_months +
\* remaining_months = months.  120000.00 over 4 months bought in 2024-01
\* and read in 2024-03 gives monthly 30000, paid 2, remaining 2 and a
\* remaining principal of 60000.
C12_PlanMonthsAndMonthlyAmount ==
  \A p \in Plans :
    /\ p.total_amount = Abs(PurchaseOf(p).amount)
    /\ IsQuotient(p.monthly_amount, p.total_amount, p.installment_months)
    /\ ~IsNull(p.purchase_date) =>
         /\ p.paid_months = Min({MonthsElapsed(p.purchase_date[1]), p.installment_months})
         /\ p.remaining_months = Max({p.installment_months - MonthsElapsed(p.purchase_date[1]), 0})
    /\ 0 <= p.paid_months
    /\ p.paid_months <= p.installment_months
    /\ p.paid_months + p.remaining_months = p.installment_months
    /\ ( /\ p.total_amount = 12000000
         /\ p.installment_months = 4
         /\ p.purchase_date = Some(DateOf(0, 15))
         /\ current_date = DateOf(2, 1) ) =>
           /\ p.monthly_amount.hundredths = 3000000
           /\ IsWhole(p.monthly_amount)
           /\ p.paid_months = 2
           /\ p.remaining_months = 2
           /\ p.remaining_principal = NumericToFloat8([hundredths |-> 6000000, tail |-> <<>>])

\* the plan of the example read in 2024-03, next to a purchase that lies
\* in the months ahead and whose amount does not divide evenly
C12_Witness ==
  /\ current_date = DateOf(2, 1)
  /\ \E p \in Plans :
       /\ p.total_amount = 12000000
       /\ p.installment_months = 4
       /\ p.paid_months = 2
  /\ \E p \in Plans :
       /\ ~IsNull(p.purchase_date)
       /\ p.purchase_date[1] > current_date
       /\ ~IsWhole(p.monthly_amount)

\* a plan whose months have all elapsed and a plan without purchase date
C12_WitnessElapsed ==
  /\ \E p \in Plans : p.remaining_months = 0 /\ p.paid_months = p.installment_months
  /\ \E p \in Plans : IsNull(p.purchase_date)

Deposits == deposits(transactions, channels)

\* the texts of a deposit the classifier looks into
IncomeTexts(d) ==
  {d.description} \cup {d.raw[k][1] : k \in {j \in IncomeRawKeys : ~IsNull(d.raw[j])}}

\* text is head, pattern, rest for some head and rest, letter case aside
OccursIn(pattern, text) ==
  \E from \in 1..Len(text) :
    /\ from + Len(pattern) - 1 <= Len(text)
    /\ \A i \in 1..Len(pattern) : LowerChar(text[from + i - 1]) = LowerChar(pattern[i])

\* the configured patterns that occur in a deposit
OccurringPatterns(d) ==
  {a \in income_source_aliases :
     a.pattern # <<>> /\ \E text \in IncomeTexts(d) : OccursIn(a.pattern, text)}

\* C13: every deposit is attributed to the source of a configured pattern
\* that occurs in it and that no occurring pattern exceeds in length, and
\* to the catch-all source when no configured pattern occurs.
C13_LongestPatternWins ==
  \A d \in Deposits :
    \A source \in classified_source(d) :
      IF OccurringPatterns(d) = {} THEN source = OtherSource
      ELSE \E a \in OccurringPatterns(d) :
             /\ a.source_name = source
             /\ \A b \in OccurringPatterns(d) : Len(b.pattern) <= Len(a.pattern)

\* a deposit in which a long pattern and two shorter ones occur, and a
\* deposit in which none occurs
C13_Witness ==
  /\ \E d \in Deposits :
       \E a \in OccurringPatterns(d), b \in OccurringPatterns(d) :
         /\ Len(a.pattern) > Len(b.pattern)
         /\ a.source_name # b.source_name
         /\ classified_source(d) = {a.source_name}
  /\ \E d \in Deposits : OccurringPatterns(d) = {} /\ classified_source(d) = {OtherSource}

\* C14: the matched pairs depend only on the set of transactions: every
\* evaluation of the pairing view over the stored transactions yields the
\* pairs of every other, also when a transaction has two candidate
\* partners at the same time gap.
C14_MatchingIsOrderIndependent ==
  \A pairs \in internal_asset_transfers(transactions, channels) : pairs = transfers

\* the stored transaction of an id
TransactionOf(id) == CHOOSE t \in transactions : TxId(t) = id

Gap(o, i) == Abs(i.occurred_at[1] - o.occurred_at[1])

\* C15: every matched pair joins a negative outbound and a positive
\* inbound of the same magnitude, both dated and on asset channels that
\* differ, at most 900 seconds apart, and neither has a candidate partner
\* at a strictly smaller gap.
C15_PairsAreMutuallyNearest ==
  \A p \in transfers :
    /\ \E t \in transactions : TxId(t) = p.out_id
    /\ \E t \in transactions : TxId(t) = p.in_id
    /\ LET o == TransactionOf(p.out_id)
           i == TransactionOf(p.in_id)
       IN  /\ ArePartners(o, i)
           /\ Gap(o, i) <= 900
           /\ \A x \in transactions :
                /\ ArePartners(o, x) => Gap(o, x) >= Gap(o, i)
                /\ ArePartners(x, i) => Gap(x, i) >= Gap(o, i)

\* a pair exactly 900 s apart is matched while an inbound of the same
\* magnitude 901 s from the outbound is in no pair
C15_Witness ==
  \E o \in transactions, i \in transactions, j \in transactions :
    /\ PairOf(o, i) \in transfers
    /\ Gap(o, i) = 900
    /\ IsAssetTransaction(j)
    /\ j.channel_id # o.channel_id
    /\ j.amount = -o.amount
    /\ Gap(o, j) = 901
    /\ \A p \in transfers : p.in_id # TxId(j)

\* the days transactions are dated on
TransactionDays == {DayOf(t.occurred_at[1]) : t \in {u \in transactions : ~IsNull(u.occurred_at)}}

\* the dates from the earliest to the latest transaction date
LedgerDates ==
  LET days == TransactionDays
  IN  IF days = {} THEN {}
      ELSE LET earliest == CHOOSE a \in days : \A b \in days : a <= b
               latest   == CHOOSE a \in days : \A b \in days : b <= a
           IN  {d \in DayRange : earliest <= d /\ d <= latest}

\* C16: for every channel and every date from the earliest to the latest
\* transaction date of the ledger there is exactly one daily balance row,
\* and there is none for any other date.
C16_DailySeriesIsDense ==
  /\ {<<b.channel_id, b.calendar_date>> : b \in DailyBalances} = (DOMAIN channels) \X LedgerDates
  /\ Cardinality(DailyBalances) = Cardinality((DOMAIN channels) \X LedgerDates)

\* a date inside the range on which nothing is dated, and a channel
\* without any transaction, both with their rows
C16_Witness ==
  /\ \E d \in LedgerDates : d \notin TransactionDays
  /\ \E c \in DOMAIN channels :
       /\ \A t \in transactions : t.channel_id # c
       /\ \E b \in DailyBalances : b.channel_id = c

\* the first days of the months the ledger's date range touches
LedgerMonths == {MonthStart(d) : d \in LedgerDates}

\* C17: for every month of the ledger's date range the balance sheet has
\* one row per channel and the cash flow report has one row, with zero
\* values when the month has no external asset transaction.
C17_EveryPeriodHasARow ==
  \A m \in LedgerMonths :
    /\ \A c \in DOMAIN channels :
         Cardinality({b \in MonthlyChannel : b.channel_id = c /\ b.period_start = m}) = 1
    /\ Cardinality({r \in CashFlow : r.period_start = m}) = 1

\* the display name carries one of the heuristic markers
HasNameMarker(c) == Contains(c.name, CardMarker) \/ Contains(c.name, CoupangMarker)

\* C18: a reporting role or cash-flow activity stored in the metadata of
\* a channel is what the classifier returns, whatever the display name;
\* without one the role comes from the name heuristic, or is asset for a
\* name without marker, and the activity is operating.
C18_MetadataWins ==
  \A id \in DOMAIN channels :
    LET c == channels[id]
    IN  /\ ~IsNull(c.metadata.reporting_role) => reporting_role(c) = c.metadata.reporting_role[1]
        /\ IsNull(c.metadata.reporting_role) =>
             IF HasNameMarker(c) THEN reporting_role(c) \in {"liability", "off_balance"}
             ELSE reporting_role(c) = "asset"
        /\ ~IsNull(c.metadata.cash_flow_activity) =>
             cash_flow_activity(c) = c.metadata.cash_flow_activity[1]
        /\ IsNull(c.metadata.cash_flow_activity) => cash_flow_activity(c) = "operating"

\* a card by name that its metadata makes an asset, with a transaction
\* that counts as asset cash, next to a channel classified by default
C18_Witness ==
  /\ \E id \in DOMAIN channels :
       /\ Contains(channels[id].name, CardMarker)
       /\ channels[id].metadata.reporting_role = Some("asset")
       /\ \E t \in asset_cash_transactions(transactions, channels) : t.channel_id = id
  /\ \E id \in DOMAIN channels :
       /\ IsNull(channels[id].metadata.reporting_role)
       /\ ~HasNameMarker(channels[id])
       /\ \E t \in asset_cash_transactions(transactions, channels) : t.channel_id = id

\* C19: every channel without a reporting-role override whose display
\* name contains the card marker is a liability, also when the name holds
\* the marketplace marker as well.
C19_CardNameIsLiability ==
  \A id \in DOMAIN channels :
    (IsNull(channels[id].metadata.reporting_role) /\ Contains(channels[id].name, CardMarker))
      => reporting_role(channels[id]) = "liability"

\* the role texts the documentation lists
KnownRoles == {"asset", "liability", "equity"}

\* C20: a channel whose metadata holds a reporting role outside the known
\* ones is rejected when it is loaded: no report carries a balance of such
\* a channel that counts in neither assets nor liabilities.
C20_UnknownRoleIsRejected ==
  \A id \in DOMAIN channels :
    ( /\ ~IsNull(channels[id].metadata.reporting_role)
      /\ channels[id].metadata.reporting_role[1] \notin KnownRoles )
      => \A b \in MonthlyChannel : b.channel_id = id => b.closing_balance = 0

IncomeReports == income_source_monthly_summary(transactions, channels)

\* the stored transactions that are the inbound leg of a matched pair
MatchedInbound == {t \in transactions : \E p \in transfers : p.in_id = TxId(t)}

\* C21: the income source report counts external deposits only: the
\* inbound legs of the matched internal transfers add nothing to the
\* amount or the count of any row, the report is that of the stored
\* transactions without them.
C21_MatchedInboundIsNotIncome ==
  IncomeReports = income_source_monthly_summary(transactions \ MatchedInbound, channels)

\* the sources of the occurring patterns that no occurring pattern exceeds
\* in length, the catch-all source when no pattern occurs
WinningSources(d) ==
  IF OccurringPatterns(d) = {} THEN {OtherSource}
  ELSE {a.source_name : a \in {b \in OccurringPatterns(d) :
                                 \A c \in OccurringPatterns(d) : Len(c.pattern) <= Len(b.pattern)}}

\* the month of a deposit: first and last day, none without a timestamp
MonthKey(d) ==
  IF IsNull(d.occurred_at) THEN Null
  ELSE LET day == d.occurred_at[1] \div SecondsPerDay
       IN  Some(<<MonthStartTable[MonthOf(day)], MonthStartTable[MonthOf(day) + 1] - 1>>)

\* the attributions of the deposits to a winning source each
Attributions ==
  {f \in [Deposits -> {a.source_name : a \in income_source_aliases}] :
     \A d \in Deposits : f[d] \in WinningSources(d)}

\* C22: a deposit attributed to the intra-owner source is in no row of
\* the income source report; every other deposit adds its amount and a
\* count of one to the one row of its month and source, and to no other
\* row; so the rows of a month sum to the total of the month's deposits
\* that are not intra-owner.
C22_ReportPartitionsExternalIncome ==
  \A report \in IncomeReports :
    \E f \in Attributions :
      LET income       == {d \in Deposits : f[d] # InternalSource}
          members(row) == {d \in income : MonthKey(d) = row.period /\ f[d] = row.source_name}
          months       == {MonthKey(d) : d \in Deposits} \cup {row.period : row \in report}
      IN  /\ \A row \in report : row.source_name # InternalSource
          /\ \A row \in report :
               /\ members(row) # {}
               /\ row.total_amount = SumF([d \in members(row) |-> d.amount])
               /\ row.transaction_count = Cardinality(members(row))
          /\ \A d \in income :
               Cardinality({row \in report : d \in members(row)}) = 1
          /\ \A month \in months :
               SumF([row \in {r \in report : r.period = month} |-> row.total_amount])
                 = SumF([d \in {e \in income : MonthKey(e) = month} |-> d.amount])

\* two deposits of one month and source in one row, and an intra-owner
\* deposit of that month in none
C22_Witness ==
  \E report \in IncomeReports :
    \E row \in report, d \in Deposits :
      /\ row.transaction_count = 2
      /\ WinningSources(d) = {InternalSource}
      /\ row.period = MonthKey(d)
      /\ Cardinality(report) = 1

\* C23: income classification is deterministic: every deposit has one
\* source the lateral subquery can return, also when patterns of equal
\* length and different sources occur in it, and every evaluation of the
\* report over the stored transactions yields the same rows.
C23_ClassificationIsDeterministic ==
  /\ \A d \in Deposits : Cardinality(classified_source(d)) = 1
  /\ \A r1 \in IncomeReports, r2 \in IncomeReports : r1 = r2

Schedule == card_installment_schedule(Plans)

\* the schedule rows of a plan
ScheduleOf(schedule, p) == {row \in schedule : row.transaction_id = p.transaction_id}

\* the schedule row of a plan with sequence index k
RowsAt(schedule, p, k) == {row \in ScheduleOf(schedule, p) : row.installment_number = k + 1}

\* first and last day of the calendar month k months after the month of
\* a day
MonthAfter(day, k) ==
  LET m == CHOOSE n \in MonthRange : MonthStartTable[n] <= day /\ day < MonthStartTable[n + 1]
  IN  <<MonthStartTable[m + k], MonthStartTable[m + k + 1] - 1>>

\* a plan has exactly months rows, one for each sequence index 0..months-1;
\* the row of index k is paid exactly when k < paid_months, so paid_months
\* rows are paid
HasRowPerIndex(schedule, p) ==
  /\ Cardinality(ScheduleOf(schedule, p)) = p.installment_months
  /\ \A k \in 0..(p.installment_months - 1) :
       /\ Cardinality(RowsAt(schedule, p, k)) = 1
       /\ \A row \in RowsAt(schedule, p, k) :
            /\ row.status = (IF k < p.paid_months THEN "paid" ELSE "scheduled")
            /\ row.monthly_amount = p.monthly_amount
  /\ Cardinality({row \in ScheduleOf(schedule, p) : row.status = "paid"}) = p.paid_months

\* the rows cover consecutive calendar months from the purchase month on,
\* the last ends on the projected end date
CoversMonthsFromPurchase(schedule, p) ==
  /\ ~IsNull(p.purchase_date)
  /\ \A k \in 0..(p.installment_months - 1) :
       \A row \in RowsAt(schedule, p, k) :
         /\ row.period_start = Some(MonthAfter(p.purchase_date[1], k)[1])
         /\ row.period_end = Some(MonthAfter(p.purchase_date[1], k)[2])
  /\ \A row \in RowsAt(schedule, p, p.installment_months - 1) :
       row.period_end = p.projected_end_date

Dated == {t \in transactions : ~IsNull(t.occurred_at)}

\* the balance and cash flow reports are those of the transactions that
\* have a timestamp
UndatedAddNothingToBalances ==
  /\ channel_daily_balances(transactions, channels) = channel_daily_balances(Dated, channels)
  /\ MonthlyChannel = balance_sheet_monthly_channel(Dated, channels)
  /\ balance_sheet_quarterly_channel(transactions, channels)
       = balance_sheet_quarterly_channel(Dated, channels)
  /\ balance_sheet_half_year_channel(transactions, channels)
       = balance_sheet_half_year_channel(Dated, channels)
  /\ CashFlow = cash_flow_monthly(Dated, channels, transfers)

\* the income source report is that of the transactions that have a
\* timestamp, and none of its rows has a NULL period
UndatedAddNothingToIncome ==
  /\ IncomeReports = income_source_monthly_summary(Dated, channels)
  /\ \A report \in IncomeReports : \A row \in report : ~IsNull(row.period)

\* C25: a transaction without timestamp is counted in no date-keyed
\* aggregation: the daily balances, the period balances, the monthly cash
\* flow and the monthly income report are those of the transactions that
\* have a timestamp, and no report row is keyed by a NULL period.
C25_UndatedTransactionsAreNotAggregated ==
  UndatedAddNothingToBalances /\ UndatedAddNothingToIncome

\* some monthly, quarterly or half-year period has assets - liabilities
\* different from equity
EquityIdentityBroken ==
  \E s \in AllSummaries : s.assets - s.liabilities # s.equity

\* the balance sheet months in pairs of a month and the next
FollowingMonths ==
  {pc \in MonthlySummary \X MonthlySummary : pc[2].period_start = pc[1].period_end + 1}

\* some month's change in total assets differs from its net cash flow
AssetDeltaBroken ==
  \E pc \in FollowingMonths :
    \E cf \in CashFlow :
      /\ cf.period_start = pc[2].period_start
      /\ pc[2].assets - pc[1].assets # cf.net_cash_flow

\* a balance sheet month after the first has no cash flow row
CashFlowRowMissing ==
  \E pc \in FollowingMonths : \A cf \in CashFlow : cf.period_start # pc[2].period_start

\* C26: a verification run over tables that violate a structural identity
\* ends with exit code 1: it ends with 0 only when every period has
\* assets - liabilities = equity, every month's change in total assets is
\* its net cash flow and every balance sheet month after the first has a
\* cash flow row.
C26_ViolationFailsVerification ==
  (EquityIdentityBroken \/ AssetDeltaBroken \/ CashFlowRowMissing) => verify_exit # Some(0)

\* a run of the SQL generated for one of the files
IngestionRun == \E json \in SignFiles : Ingest(json)

\* C27: at all times there is one stored transaction per file and record
\* id, and an ingestion run leaves every stored transaction as it is, its
\* amount included, also after the backfill corrected its sign and when
\* the file now holds the record with other contents.
C27_ReingestionKeepsHistory ==
  /\ [](\A t1 \in transactions, t2 \in transactions : TxId(t1) = TxId(t2) => t1 = t2)
  /\ [][IngestionRun => \A t \in transactions : t \in transactions']_vars

\* the backfill has corrected the sign of a stored transaction and a file
\* holds a record of the same id for which the generator computes another
\* amount than the stored one: the next run of its SQL meets the conflict
C27_Witness ==
  /\ Backfilled
  /\ \E b \in backfill_input[1], t \in transactions :
       /\ TxId(b) = TxId(t)
       /\ b.amount # t.amount
       /\ \E json \in SignFiles :
            \E r \in json.records :
              /\ Conflicts(json.sourceFile, r.id, transactions)
              /\ json.sourceFile = t.file_id
              /\ r.id = t.record_id
              /\ normalizeAmount(r) # t.amount

\* the double that a numeric(18,2) amount converts to
AmountAsFloat8(amount) == NumericToFloat8([hundredths |-> amount, tail |-> <<>>])

\* C28: a fully elapsed installment plan owes nothing.  For every
\* qualifying purchase remaining_principal is never negative and never
\* exceeds the total amount, and once the months elapsed reach the month
\* count (paid_months = installment_months) remaining_principal is exactly
\* 0, also when the total is not evenly divisible by the month count.
C28_ElapsedPlanOwesNothing ==
  \A p \in Plans :
    /\ p.remaining_principal.sign >= 0
    /\ ~Float8Less(AmountAsFloat8(p.total_amount), p.remaining_principal)
    /\ p.paid_months = p.installment_months => p.remaining_principal = Float8Zero

QuarterlyChannel == balance_sheet_quarterly_channel(transactions, channels)

HalfYearChannel == balance_sheet_half_year_channel(transactions, channels)

\* the rows of a channel whose period holds the date
RowsHolding(rows, channel_id, d) ==
  {r \in rows : r.channel_id = channel_id /\ r.period_start <= d /\ d <= r.period_end}

\* a period of n calendar months that begins with a month whose number in
\* the year is 1 more than a multiple of n
IsCalendarPeriod(r, n) ==
  /\ r.period_start = MonthStart(r.period_start)
  /\ MonthOf(r.period_start) % n = 0
  /\ r.period_end = MonthEnd(r.period_end)
  /\ MonthOf(r.period_end) = MonthOf(r.period_start) + n - 1

\* the rows of the monthly balance sheet for the channel of row r and the
\* months of r's period
MonthsWithin(monthly, r) ==
  {m \in monthly : /\ m.channel_id = r.channel_id
                   /\ r.period_start <= m.period_start
                   /\ m.period_end <= r.period_end}

\* r closes with the balance of the last month that its period has in the
\* monthly balance sheet
ClosesWithLastMonth(monthly, r) ==
  \E m \in MonthsWithin(monthly, r) :
    /\ \A o \in MonthsWithin(monthly, r) : o.period_start <= m.period_start
    /\ r.closing_balance = m.closing_balance

\* C29: the three balance-sheet granularities agree.  Every date of the
\* ledger's range lies, for every channel, in exactly one monthly, one
\* quarterly and one half-year row; months are calendar months, quarters
\* begin with months 1, 4, 7, 10 and half-years with months 1 and 7 (months
\* 1-6 form the first half, 7-12 the second); and every quarter-end and
\* half-year-end balance of a channel equals the monthly period-end
\* balance of the last month of that quarter or half-year that lies inside
\* the ledger's date range.
C29_GranularitiesAgree ==
  LET monthly   == MonthlyChannel
      quarterly == QuarterlyChannel
      halfYear  == HalfYearChannel
      dates     == LedgerDates
  IN  /\ \A c \in DOMAIN channels : \A d \in dates :
           /\ Cardinality(RowsHolding(monthly, c, d)) = 1
           /\ Cardinality(RowsHolding(quarterly, c, d)) = 1
           /\ Cardinality(RowsHolding(halfYear, c, d)) = 1
      /\ \A r \in monthly : IsCalendarPeriod(r, 1)
      /\ \A r \in quarterly : IsCalendarPeriod(r, 3) /\ ClosesWithLastMonth(monthly, r)
      /\ \A r \in halfYear : IsCalendarPeriod(r, 6) /\ ClosesWithLastMonth(monthly, r)

\* a ledger from June into August: the third quarter and the second half
\* of the year close with the balance of August, which is not July's, and
\* the second quarter closes with that of June
C29_Witness ==
  LET monthly == MonthlyChannel
  IN  \E q \in QuarterlyChannel : \E h \in HalfYearChannel :
        /\ q.channel_id = h.channel_id
        /\ q.period_start = DateOf(6, 1)
        /\ h.period_start = DateOf(6, 1)
        /\ \E july \in MonthsWithin(monthly, q) : \E august \in MonthsWithin(monthly, q) :
             /\ july.period_start = DateOf(6, 1)
             /\ august.period_start = DateOf(7, 1)
             /\ july.closing_balance # august.closing_balance
             /\ q.closing_balance = august.closing_balance
             /\ h.closing_balance = august.closing_balance
        /\ \E q2 \in QuarterlyChannel :
             /\ q2.channel_id = q.channel_id
             /\ q2.period_end = DateOf(5, 30)
             /\ q2.closing_balance # 0

\* the rows that ingestion stores for the records of the statements
IngestedRows == {InsertValues(json, r) : json \in SignFiles, r \in SignRecords}

\* C30: the two forms of the Sign Normalizer agree.  Running the backfill
\* script over transactions that were ingested through normalizeAmount
\* changes no amount, for every combination of stored sign and '[+' / '[-'
\* markers in the transaction type and the raw direction fields, records
\* with opposite markers or markers preceded by whitespace included.
C30_BackfillKeepsIngestedAmounts ==
  Backfilled =>
    \A t \in backfill_input[1] : t \in IngestedRows => t \in transactions

====
